---- MODULE Spec2Model ----
(***************************************************************************)
(* SmartButton (PCF control): the record cache shared through              *)
(* window.recordCache, the retrieveRecordWithCache request de-duplication, *)
(* the post-save / unmount invalidation, and the lookup-chain and template *)
(* resolution of SmartButton.tsx.                                          *)
(*                                                                         *)
(* Spec     : several SmartButton instances racing on the shared cache.    *)
(* FairSpec : Spec with the data store answering every issued request.     *)
(* SpecR    : asyncReplaceDynamicValues invoked twice on one template, step *)
(*            by step, over a range of records, store contents, templates. *)
(* SpecP    : one SmartButton instance from its mount on: fetchRecord, the *)
(*            resolveConfigs passes with the ExpressionEvaluator, the      *)
(*            render and the clicks.                                       *)
(* SpecQ    : one instance with overlapping resolveConfigs passes: every   *)
(*            pass suspends on its requests, the host signals a save, the  *)
(*            config list changes.  FairSpecQ: the store answers.          *)
(* SpecE    : the ExpressionEvaluator and the template resolver applied to *)
(*            one expression over two records, side by side.               *)
(***************************************************************************)
EXTENDS Integers, Sequences, FiniteSets, TLC

\* ------------------------------------------------------------------ bounds
MaxSlots == 2      \* retrieveRecordWithCache invocations suspended at one time
MaxSaves == 1      \* host post-save events in one behaviour
NumComps == 2      \* SmartButton instances on the form sharing the cache

\* ------------------------------------------------------- program constants
MAX_RETRIES == 5

Comps == 1..NumComps
Slots == 1..MaxSlots

\* cache keys `${entityName}:${recordId}`: the form's record and a related one
KBase == "contact:c1"
KRel  == "account:a1"
KRel2 == "account:a2"
Keys  == {KBase, KRel, KRel2}

NoRec == [by |-> 0, epoch |-> 0]
Absent  == [kind |-> "absent",  rec |-> NoRec]
Loading == [kind |-> "loading", rec |-> NoRec]
Stored(r) == [kind |-> "record", rec |-> r]

FreeCall == [st |-> "free", comp |-> 0, key |-> "", retry |-> 0, kind |-> "", epoch |-> 0,
             behind |-> FALSE]

VARIABLES
  cache,              \* window.recordCache : key -> CacheEntry
  calls,              \* suspended retrieveRecordWithCache invocations
  mounted,            \* per instance: "yes" | "gone"
  validId,            \* per instance: recordId is a concrete (non-zero) guid
  fetchedRecordKeys,  \* per instance: the ref fetchedRecordKeys.current
  saveCounter,        \* per instance: React state saveCounter
  fetchDue,           \* per instance: the fetchRecord effect is scheduled
  record,             \* per instance: React state record ("null" | "empty" | "loaded")
  isLoading,          \* per instance: React state isLoading
  error,              \* per instance: React state error is set
  saves,              \* post-save events the host has signalled
  store,              \* the data store: key -> record, or NotFound
  baseRec,            \* the content of the React state record of the resolving instance
  rs,                 \* the asyncReplaceDynamicValues invocation in progress
  configs,            \* the prop configs: the ButtonConfig list
  recordId,           \* the prop recordId
  host,               \* the page: its Xrm global, and how its store rejects
  expressionEvaluator,\* React state expressionEvaluator (null, or bound to a record)
  resolvedConfigs,    \* React state resolvedConfigs
  errorMessage,       \* the text of the React state error of the instance
  passes,             \* the resolveConfigs invocations in progress
  fetchState,         \* where the fetchRecord invocation of the instance is
  trial,              \* one expression evaluated against two records, and its
                      \* field path resolved by the template resolver
  fx,                 \* what the page has seen: the webAPI.retrieveRecord requests
                      \* of the instance, and what its last click did
  last                \* the last step taken: its operation and, for a call that
                      \* returned or settled, the instance, the key and the record

vars == <<cache, calls, mounted, validId, fetchedRecordKeys, saveCounter, fetchDue,
          record, isLoading, error, saves, store, baseRec, rs, last,
          configs, recordId, host, expressionEvaluator, resolvedConfigs, errorMessage,
          passes, fetchState, fx, trial>>

\* the state of the one instance whose passes and clicks are followed
pvars == <<configs, recordId, host, expressionEvaluator, resolvedConfigs, errorMessage,
           passes, fetchState, fx, trial>>

\* what the cache race leaves alone, and what a template resolution leaves alone
rvars == <<store, baseRec, rs, pvars>>
cvars == <<calls, mounted, validId, saveCounter, fetchDue, record, isLoading, error,
           saves, last, pvars>>

NoStep == [op |-> "none", comp |-> 0, key |-> "", rec |-> NoRec, behind |-> FALSE]
Step(o, c, k, r, b) == [op |-> o, comp |-> c, key |-> k, rec |-> r, behind |-> b]

\* ---------------------------------------------------------------- helpers
FreeSlots == {i \in Slots : calls[i].st = "free"}
Alloc == CHOOSE i \in FreeSlots : \A j \in FreeSlots : i <= j

\* the webAPI.retrieveRecord requests for key k that are outstanding
Outstanding(k) == {i \in Slots : calls[i].st = "fetch" /\ calls[i].key = k}

\* delete cache[key] for every key of ks
Invalidate(cch, ks) == [k \in Keys |-> IF k \in ks THEN Absent ELSE cch[k]]

\* faulty variants of EntryOutcome: no de-duplication on a loading marker; no
\* use of a completed record
EntryOutcomeNoDedup(e, retry) ==
  IF e.kind = "record" THEN "hit" ELSE "fetch"

EntryOutcomeIgnoresRecord(e, retry) ==
  IF e.kind = "loading" /\ retry < MAX_RETRIES THEN "wait" ELSE "fetch"

\* faulty variant of EntryOutcome: the retry cap of line 648 is missing
EntryOutcomeNoCap(e, retry) ==
  IF e.kind = "record" THEN "hit"
  ELSE IF e.kind = "loading" THEN "wait"
  ELSE "fetch"

\* retrieveRecordWithCache, lines 643-661: what one entry into the function
\* does with the entry e it finds, at recursion depth retry
EntryOutcome(e, retry) ==
  IF e.kind = "record" THEN "hit"
  ELSE IF e.kind = "loading" /\ retry < MAX_RETRIES THEN "wait"
  ELSE "fetch"

\* faulty variant of OnResolve: the record is handed back without being stored
OnResolveNoStore(cch, k, r) == [cch EXCEPT ![k] = Absent]

\* line 665 / line 668: the cache after the request settles
OnResolve(cch, k, r) == [cch EXCEPT ![k] = Stored(r)]
\* faulty variant of OnReject: the catch block forgets the delete
OnRejectKeepsMarker(cch, k) == cch

OnReject(cch, k) == [cch EXCEPT ![k] = Absent]

\* the keys handlePostSave (587-589) and the unmount cleanup (613-615) delete
\* faulty variant of PostSaveKeys: only the form's own record is invalidated
PostSaveKeysBaseOnly(c) == fetchedRecordKeys[c] \cap {KBase}

PostSaveKeys(c) == fetchedRecordKeys[c]
CleanupKeys(c) == fetchedRecordKeys[c]

\* fetchRecord's continuation after its await (686-694); a lookup's result is
\* consumed by the resolution that asked for it.  React drops the state
\* updates of an unmounted component.
Continue(c, kind, ok, r) ==
  IF kind = "base" /\ mounted[c] = "yes"
  THEN /\ record' = [record EXCEPT ![c] = IF ok THEN "loaded" ELSE "empty"]
       /\ error' = [error EXCEPT ![c] = IF ok THEN @ ELSE TRUE]
       /\ isLoading' = [isLoading EXCEPT ![c] = FALSE]
  ELSE UNCHANGED <<record, error, isLoading>>

\* retrieveRecordWithCache from its first line to its first await (or return),
\* entered by instance c for key k at recursion depth retry, using slot i;
\* b: a request for k was outstanding when the caller made its first call
Enter(c, k, kind, retry, i, b) ==
  LET e == cache[k]
      o == EntryOutcome(e, retry)
  IN /\ fetchedRecordKeys' = [fetchedRecordKeys EXCEPT ![c] =
                                 IF mounted[c] = "yes" THEN @ \cup {k} ELSE @]
     /\ CASE o = "hit" ->
               /\ cache' = cache
               /\ calls' = [calls EXCEPT ![i] = FreeCall]
               /\ Continue(c, kind, TRUE, e.rec)
               /\ last' = Step("hit", c, k, e.rec, b)
          [] o = "wait" ->
               /\ cache' = cache
               /\ calls' = [calls EXCEPT ![i] =
                     [st |-> "wait", comp |-> c, key |-> k, retry |-> retry,
                      kind |-> kind, epoch |-> 0, behind |-> b]]
               /\ UNCHANGED <<record, error, isLoading>>
               /\ last' = Step("wait", 0, k, NoRec, FALSE)
          [] OTHER ->
               /\ cache' = [cache EXCEPT ![k] = Loading]
               /\ calls' = [calls EXCEPT ![i] =
                     [st |-> "fetch", comp |-> c, key |-> k, retry |-> retry,
                      kind |-> kind, epoch |-> saves, behind |-> b]]
               /\ UNCHANGED <<record, error, isLoading>>
               /\ last' = Step("issue", 0, k, NoRec, FALSE)

\* ------------------------------------------- records, values and templates
\* A text is a sequence of atoms: a run of literal characters, a "{path}"
\* reference, or a ".method(args)" suffix.  Field values that are strings are
\* texts too, so a value may itself carry "{...}" text.
Lit(w) == [k |-> "lit", p |-> <<>>, m |-> w]
Ref(path) == [k |-> "ref", p |-> path, m |-> ""]
Call(name, args) == [k |-> "call", p |-> args, m |-> name]
NoCall == [k |-> "none", p |-> <<>>, m |-> ""]

\* JavaScript values a record attribute can hold
Undef == [t |-> "undef", s |-> <<>>]
Null == [t |-> "null", s |-> <<>>]
Str(x) == [t |-> "str", s |-> x]
Num(w) == [t |-> "num", s |-> <<Lit(w)>>]
DateOf(x) == [t |-> "date", s |-> x]
Word(w) == Str(<<Lit(w)>>)

DateText == "2025-06-02T00:00:00Z"

Attrs == {"f", "_a_value", "_a_value@Microsoft.Dynamics.CRM.lookuplogicalname",
          "_b_value", "_b_value@Microsoft.Dynamics.CRM.lookuplogicalname"}

\* lines 707-708: `_${field}_value` and its lookuplogicalname annotation
IdField(field) ==
  CASE field = "a" -> "_a_value"
    [] field = "b" -> "_b_value"
    [] OTHER -> "_?_value"
LogicalNameField(field) ==
  CASE field = "a" -> "_a_value@Microsoft.Dynamics.CRM.lookuplogicalname"
    [] field = "b" -> "_b_value@Microsoft.Dynamics.CRM.lookuplogicalname"
    [] OTHER -> "_?_value@Microsoft.Dynamics.CRM.lookuplogicalname"

\* record[attr]: undefined for an attribute the record does not carry
Get(r, attr) == IF attr \in DOMAIN r THEN r[attr] ELSE Undef

EmptyRecord == [x \in {} |-> Undef]
NullRecord == [x \in {"<null>"} |-> Null]      \* fetchRelatedRecord's null
NotFound == [x \in {"<error>"} |-> Null]       \* the store rejects the request

\* line 714: `${entity}:${id}` for the ids of the modelled store
CacheKey(entity, id) ==
  CASE entity = Word("account") /\ id = Word("a1") -> KRel
    [] entity = Word("account") /\ id = Word("a2") -> KRel2
    [] OTHER -> KBase

\* line 713: id && entity && typeof id === 'string' && typeof entity === 'string'
Usable(id, entity) ==
  /\ id.t = "str" /\ id.s # <<>>
  /\ entity.t = "str" /\ entity.s # <<>>

\* String(value), line 849
StringOf(v) ==
  CASE v.t = "undef" -> <<Lit("undefined")>>
    [] v.t = "null" -> <<Lit("null")>>
    [] v.t = "date" -> <<Lit("Mon Jun 02 2025")>>
    [] OTHER -> v.s

\* line 818: the timestamp pattern, on the string values of the modelled records
IsDateString(v) == v.t = "str" /\ v.s = <<Lit(DateText)>>

\* line 819: methodCall.startsWith('.get') || methodCall.startsWith('.toLocale')
DateAccessor(name) == name \in {"getFullYear", "toLocaleDateString"}

UpperOf(a) ==
  IF a.k # "lit" THEN a
  ELSE CASE a.m = "abc" -> Lit("ABC")
         [] a.m = "x1" -> Lit("X1")
         [] a.m = "x2" -> Lit("X2")
         [] OTHER -> a

\* line 830: typeof resolvedValue[methodName] === 'function', for the methods
\* the modelled templates use
HasMethod(v, name) ==
  \/ v.t = "str" /\ name \in {"toUpperCase", "codePointAt"}
  \/ v.t = "date" /\ name \in {"toLocaleDateString", "getFullYear"}

\* line 841: resolvedValue[methodName](...parsedArgs)
Invoke(v, name, args) ==
  CASE name = "toUpperCase" -> Str([i \in DOMAIN v.s |-> UpperOf(v.s[i])])
    [] name = "codePointAt" ->       \* undefined when there is no element at the position
         IF args = <<"0">> /\ v.s # <<>> THEN Num("97") ELSE Undef
    [] name = "toLocaleDateString" -> Word("6/2/2025")
    [] name = "getFullYear" -> Num("2025")
    [] OTHER -> v

\* lines 813-846: the method suffix applied to a defined value
ApplyMethodCall(v, call) ==
  IF v.t = "null" THEN v              \* null[methodName] throws; caught at 843
  ELSE LET d == IF IsDateString(v) /\ DateAccessor(call.m) THEN DateOf(v.s) ELSE v
       IN IF HasMethod(d, call.m) THEN Invoke(d, call.m, call.p) ELSE d

\* lines 765-775: the tokens of a text, left to right
RECURSIVE ExtractFrom(_, _)
ExtractFrom(text, i) ==
  IF i > Len(text) THEN <<>>
  ELSE IF text[i].k # "ref" THEN ExtractFrom(text, i + 1)
  ELSE IF i < Len(text) /\ text[i + 1].k = "call"
       THEN <<[full |-> <<text[i], text[i + 1]>>, path |-> text[i].p, meth |-> text[i + 1]]>>
              \o ExtractFrom(text, i + 2)
       ELSE <<[full |-> <<text[i]>>, path |-> text[i].p, meth |-> NoCall]>>
              \o ExtractFrom(text, i + 1)
ExtractRefs(text) == ExtractFrom(text, 1)

\* String.prototype.replace(pattern, replacement) with a string pattern: the
\* first occurrence only (no value of the model holds a "$" pattern)
Occurs(text, pat, i) ==
  /\ i + Len(pat) - 1 <= Len(text)
  /\ \A j \in 1..Len(pat) : text[i + j - 1] = pat[j]
ReplaceFirst(text, pat, rep) ==
  LET hits == {i \in 1..Len(text) : Occurs(text, pat, i)}
  IN IF hits = {} THEN text
     ELSE LET i == CHOOSE h \in hits : \A g \in hits : h <= g
          IN SubSeq(text, 1, i - 1) \o rep \o SubSeq(text, i + Len(pat), Len(text))

\* lines 809-846: what one reference is replaced with
Substitute(ref, vals) ==
  LET v == vals[ref.path]
  IN IF v.t = "undef" THEN Str(ref.full)
     ELSE IF ref.meth # NoCall THEN ApplyMethodCall(v, ref.meth)
     ELSE v

\* lines 807-850: the replacement loop over fieldRefs
RECURSIVE ReplaceLoop(_, _, _, _)
ReplaceLoop(text, refs, vals, i) ==
  IF i > Len(refs) THEN text
  ELSE ReplaceLoop(ReplaceFirst(text, refs[i].full, StringOf(Substitute(refs[i], vals))),
                   refs, vals, i + 1)

\* ------------------------------------------------- inputs of a resolution
\* base records: field f absent, null, a word or a timestamp; lookup a usable,
\* absent, or carrying an id without its type annotation
FValues == {Undef, Null, Word("abc"), Word(DateText)}
LinkTo(field, id) == (IdField(field) :> Word(id)) @@ (LogicalNameField(field) :> Word("account"))
IdOnly(field, id) == (IdField(field) :> Word(id))
WithF(v) == IF v = Undef THEN EmptyRecord ELSE ("f" :> v)

\* and one whose field f holds the text "{a.id}"
BaseRecords ==
  {WithF(v) @@ l : v \in FValues, l \in {LinkTo("a", "a1"), EmptyRecord, IdOnly("a", "a1")}}
  \cup {("f" :> Str(<<Ref(<<"a", "id">>)>>)) @@ LinkTo("a", "a1")}
\* account a1: f absent or "x1"; lookup b to a2, or absent.  account a2: f absent or "x2"
A1Records ==
  {WithF(v) @@ l : v \in {Undef, Word("x1")}, l \in {LinkTo("b", "a2"), EmptyRecord}}
A2Records == {WithF(v) : v \in {Undef, Word("x2")}}
Stores ==
  {(KBase :> NotFound) @@ (KRel :> r1) @@ (KRel2 :> r2) :
      r1 \in A1Records \cup {NotFound}, r2 \in A2Records \cup {NotFound}}

Templates ==
  { <<Lit("no tokens")>>,
    <<Lit("Hi "), Ref(<<"f">>)>>,
    <<Ref(<<"f">>), Call("toUpperCase", <<>>)>>,
    <<Ref(<<"f">>), Call("codePointAt", <<"99">>), Lit("!")>>,
    <<Ref(<<"f">>), Call("nosuch", <<>>)>>,
    <<Ref(<<"f">>), Call("toLocaleDateString", <<>>)>>,
    <<Ref(<<"a", "f">>)>>,
    <<Ref(<<"a", "b", "f">>)>>,
    <<Ref(<<"a", "b", "f">>), Call("toUpperCase", <<>>), Lit(" "), Ref(<<"f">>)>>,
    <<Ref(<<"a", "id">>), Lit("/"), Ref(<<"a", "f">>)>>,
    <<Ref(<<"f">>), Lit(" "), Ref(<<"a", "id">>)>>,
    <<Ref(<<"f">>), Lit("|"), Ref(<<"f">>)>> }

IdleRs ==
  [phase |-> "idle", text |-> <<>>, refs |-> <<>>, idx |-> 0, hop |-> 0,
   cur |-> EmptyRecord, result |-> NullRecord, related |-> NullRecord, key |-> "",
   vals |-> [x \in {} |-> Undef], out |-> <<>>, nFetch |-> 0, chains |-> 0,
   run |-> 1, first |-> <<>>, asked |-> <<>>]

\* ------------------------------------------------ a resolution, step by step
LookupPath(ref) == SubSeq(ref.path, 1, Len(ref.path) - 1)
FinalField(ref) == ref.path[Len(ref.path)]
CurRef == rs.refs[rs.idx]

\* line 790: finalField.toLowerCase() === 'id'
IsIdField(name) == name \in {"id", "Id", "ID", "iD"}

\* lines 737 and 745: what fetchRelatedRecord returns when hop number hop has
\* no usable id/type pair on the current record
OnMissingHop(hop, result) == IF hop = 1 THEN NullRecord ELSE result

\* faulty variant of OnLookupFailed: the record of the hops done so far
OnLookupFailedKeepsResult(result) == result

\* lines 752-755: what fetchRelatedRecord returns when a request of the chain
\* is rejected; result is the record of the hops done so far
OnLookupFailed(result) == NullRecord

\* lines 796 and 803: fetchRelatedRecord has returned rel
FinishChain(r, rel) ==
  [r EXCEPT !.phase = "resolve", !.related = rel, !.chains = 1,
            !.vals = (CurRef.path :> Get(rel, FinalField(CurRef))) @@ r.vals,
            !.idx = r.idx + 1, !.key = ""]

\* lines 739-740 / 747-748: a hop has produced the record rec
Advance(r, rec) ==
  IF r.hop = Len(LookupPath(CurRef))
  THEN FinishChain([r EXCEPT !.result = rec, !.cur = rec], rec)
  ELSE [r EXCEPT !.result = rec, !.cur = rec, !.hop = r.hop + 1, !.phase = "hop", !.key = ""]

\* lines 762-775: the guard and the token extraction
R_Start ==
  /\ rs.phase = "idle"
  /\ rs' = IF rs.text = <<>>
           THEN [rs EXCEPT !.phase = "done", !.out = <<>>]
           ELSE [rs EXCEPT !.phase = "resolve", !.refs = ExtractRefs(rs.text), !.idx = 1]
  /\ UNCHANGED <<cache, fetchedRecordKeys, store, baseRec, cvars>>

\* lines 781-804: one reference of the loop, up to its await if it has one
R_ResolveRef ==
  /\ rs.phase = "resolve" /\ rs.idx <= Len(rs.refs)
  /\ rs' = IF Len(CurRef.path) > 1
           THEN IF IsIdField(FinalField(CurRef))
                THEN LET v == Get(baseRec, IdField(LookupPath(CurRef)[1]))
                     IN [rs EXCEPT !.vals = (CurRef.path :>
                                      (IF v.t \in {"undef", "null"} THEN Str(CurRef.full) ELSE v))
                                      @@ rs.vals,
                                   !.idx = rs.idx + 1]
                ELSE [rs EXCEPT !.phase = "hop", !.hop = 1, !.cur = baseRec,
                                !.result = NullRecord]
           ELSE [rs EXCEPT !.vals = (CurRef.path :> Get(baseRec, CurRef.path[1])) @@ rs.vals,
                           !.idx = rs.idx + 1]
  /\ UNCHANGED <<cache, fetchedRecordKeys, store, baseRec, cvars>>

\* fetchSingleLevelRecord (706-722) on the current record of the chain, and
\* retrieveRecordWithCache up to its await
R_Hop ==
  /\ rs.phase = "hop"
  /\ LET field == LookupPath(CurRef)[rs.hop]
         id == Get(rs.cur, IdField(field))
         entity == Get(rs.cur, LogicalNameField(field))
         k == CacheKey(entity, id)
     IN IF Usable(id, entity)
        THEN /\ fetchedRecordKeys' = [fetchedRecordKeys EXCEPT ![1] = @ \cup {k}]
             /\ IF EntryOutcome(cache[k], 0) = "hit"
                THEN /\ rs' = Advance(rs, cache[k].rec)
                     /\ cache' = cache
                ELSE /\ rs' = [rs EXCEPT !.phase = "await", !.key = k, !.nFetch = rs.nFetch + 1,
                                          !.asked = Append(@, k)]
                     /\ cache' = [cache EXCEPT ![k] = Loading]
        ELSE /\ rs' = FinishChain(rs, OnMissingHop(rs.hop, rs.result))
             /\ UNCHANGED <<cache, fetchedRecordKeys>>
  /\ UNCHANGED <<store, baseRec, cvars>>

\* line 664-666: the store answers with the record
R_FetchResolve ==
  /\ rs.phase = "await" /\ store[rs.key] # NotFound
  /\ cache' = OnResolve(cache, rs.key, store[rs.key])
  /\ rs' = Advance(rs, store[rs.key])
  /\ UNCHANGED <<fetchedRecordKeys, store, baseRec, cvars>>

\* line 667-670, caught by fetchRelatedRecord at 752-755
R_FetchReject ==
  /\ rs.phase = "await" /\ store[rs.key] = NotFound
  /\ cache' = OnReject(cache, rs.key)
  /\ rs' = FinishChain(rs, OnLookupFailed(rs.result))
  /\ UNCHANGED <<fetchedRecordKeys, store, baseRec, cvars>>

\* lines 806-852: the replacement loop and the return
R_Replace ==
  /\ rs.phase = "resolve" /\ rs.idx > Len(rs.refs)
  /\ rs' = [rs EXCEPT !.phase = "done", !.out = ReplaceLoop(rs.text, rs.refs, rs.vals, 1)]
  /\ UNCHANGED <<cache, fetchedRecordKeys, store, baseRec, cvars>>

\* the caller resolves the same text once more: same record, no invalidation
\* in between (the cache and the store stay as the first resolution left them)
R_Again ==
  /\ rs.phase = "done" /\ rs.run = 1
  /\ rs' = [IdleRs EXCEPT !.text = rs.text, !.run = 2, !.first = rs.out, !.asked = rs.asked]
  /\ UNCHANGED <<cache, fetchedRecordKeys, store, baseRec, cvars>>

\* ------------------------------------------- a resolution inside a pass
\* Inside a resolveConfigs pass and a click the data store's answer is taken
\* at the await: w = [cache, keys, calls] is window.recordCache, the ref
\* fetchedRecordKeys.current and the webAPI.retrieveRecord requests sent so far.
World(cch, ks, cs) == [cache |-> cch, keys |-> ks, calls |-> cs]

\* retrieveRecordWithCache (632-671) for key k, no other caller being active:
\* the record, or NotFound when the request is rejected
RetrieveRecordWithCache(w, k) ==
  IF EntryOutcome(w.cache[k], 0) = "hit"
  THEN [rec |-> w.cache[k].rec, w |-> [w EXCEPT !.keys = @ \cup {k}]]
  ELSE [rec |-> store[k],
        w |-> World(IF store[k] = NotFound THEN OnReject(w.cache, k)
                    ELSE OnResolve(w.cache, k, store[k]),
                    w.keys \cup {k}, Append(w.calls, k))]

\* fetchRelatedRecord (728-756): hop i of path from the record cur
RECURSIVE RelatedFrom(_, _, _, _, _)
RelatedFrom(cur, result, path, i, w) ==
  IF i > Len(path) THEN [rel |-> result, w |-> w]
  ELSE LET id == Get(cur, IdField(path[i]))
           entity == Get(cur, LogicalNameField(path[i]))
       IN IF ~Usable(id, entity) THEN [rel |-> OnMissingHop(i, result), w |-> w]
          ELSE LET got == RetrieveRecordWithCache(w, CacheKey(entity, id))
               IN IF got.rec = NotFound THEN [rel |-> OnLookupFailed(result), w |-> got.w]
                  ELSE RelatedFrom(got.rec, got.rec, path, i + 1, got.w)
FetchRelatedRecord(rec, path, w) == RelatedFrom(rec, NullRecord, path, 1, w)

\* lines 781-804: the value of one reference
FieldValue(ref, rec, w) ==
  IF Len(ref.path) > 1
  THEN IF IsIdField(FinalField(ref))
       THEN LET v == Get(rec, IdField(LookupPath(ref)[1]))
            IN [v |-> IF v.t \in {"undef", "null"} THEN Str(ref.full) ELSE v, w |-> w]
       ELSE LET r == FetchRelatedRecord(rec, LookupPath(ref), w)
            IN [v |-> Get(r.rel, FinalField(ref)), w |-> r.w]
  ELSE [v |-> Get(rec, ref.path[1]), w |-> w]

\* lines 778-804: resolvedValues after the references i.. of refs
RECURSIVE ResolvedValues(_, _, _, _, _)
ResolvedValues(refs, rec, i, vals, w) ==
  IF i > Len(refs) THEN [vals |-> vals, w |-> w]
  ELSE LET f == FieldValue(refs[i], rec, w)
       IN ResolvedValues(refs, rec, i + 1, (refs[i].path :> f.v) @@ vals, f.w)

\* asyncReplaceDynamicValues (761-853) of text against the record rec of the
\* render (has: record is not null)
AsyncReplaceDynamicValues(text, has, rec, w) ==
  IF text = <<>> \/ ~has THEN [out |-> <<>>, w |-> w]
  ELSE LET refs == ExtractRefs(text)
           r == ResolvedValues(refs, rec, 1, [x \in {} |-> Undef], w)
       IN [out |-> ReplaceLoop(text, refs, r.vals, 1), w |-> r.w]

\* ------------------------------------------------- the ExpressionEvaluator
\* A visibility expression: its form, the path of its one {reference} and the
\* word it compares with.
\*   "eq"     {path} == 'word'             "isnull" {path} == null
\*   "upper"  {path}.toUpperCase() == 'word'
\*   "call"   {path}.nosuch()              "syntax" {path} ==
\*   "true"   true                         "none"   the empty expression
\*   "rec"    record.path == 'word'  (the record argument, no braces)
Expr(form, path, word) == [form |-> form, path |-> path, word |-> word]
NoExpr == Expr("none", <<>>, "")

\* extractFieldReferences (73-85)
ExtractFieldReferences(e) ==
  IF e.form \in {"none", "true", "rec"} THEN <<>> ELSE <<e.path>>

\* !currentId, !currentEntity (216, 231)
Falsy(v) == v.t \in {"undef", "null"} \/ (v.t = "str" /\ v.s = <<>>)

\* fetchRelatedRecord of the evaluator (200-245) with its retrieveRecord
\* (253-259): hop i of path from the record cur; cs: the requests sent so far
RECURSIVE EvRelatedFrom(_, _, _, _)
EvRelatedFrom(cur, path, i, cs) ==
  IF i > Len(path) THEN [rel |-> cur, calls |-> cs]
  ELSE LET id == Get(cur, IdField(path[i]))
           entity == Get(cur, LogicalNameField(path[i]))
           k == CacheKey(entity, id)
       IN IF Falsy(id) \/ Falsy(entity) THEN [rel |-> NullRecord, calls |-> cs]
          ELSE IF store[k] = NotFound THEN [rel |-> NullRecord, calls |-> Append(cs, k)]
          ELSE EvRelatedFrom(store[k], path, i + 1, Append(cs, k))

\* convertValueToProperType (143-160)
ConvertValueToProperType(v) ==
  IF v.t \in {"undef", "null"} THEN Null
  ELSE IF IsDateString(v) THEN DateOf(v.s)
  ELSE v

\* getRelatedFieldValue (167-195) on the evaluator ev = [rec, related]; failed:
\* a request for a related record was rejected
GetRelatedFieldValue(ev, path, cs) ==
  LET lookupPath == SubSeq(path, 1, Len(path) - 1)
      finalField == path[Len(path)]
      cached == lookupPath \in DOMAIN ev.related
      got == IF cached THEN [rel |-> ev.related[lookupPath], calls |-> cs]
             ELSE EvRelatedFrom(ev.rec, lookupPath, 1, cs)
      v == Get(got.rel, finalField)
  IN [v |-> IF got.rel = NullRecord \/ v = Undef THEN Null ELSE v,
      ev |-> IF cached \/ got.rel = NullRecord THEN ev
             ELSE [ev EXCEPT !.related = (lookupPath :> got.rel) @@ @],
      calls |-> got.calls,
      failed |-> \E n \in 1..Len(got.calls) : n > Len(cs) /\ store[got.calls[n]] = NotFound]

\* createDataObjectAsync (120-136) for the one reference of an expression
CreateDataObjectAsync(e, ev, cs) ==
  LET refs == ExtractFieldReferences(e)
  IN IF refs = <<>> THEN [data |-> Null, ev |-> ev, calls |-> cs, failed |-> FALSE]
     ELSE IF Len(refs[1]) > 1
          THEN LET g == GetRelatedFieldValue(ev, refs[1], cs)
               IN [data |-> ConvertValueToProperType(g.v), ev |-> g.ev, calls |-> g.calls,
                   failed |-> g.failed]
          ELSE [data |-> ConvertValueToProperType(Get(ev.rec, refs[1][1])), ev |-> ev,
                calls |-> cs, failed |-> FALSE]

\* the rewritten expression (292-310) run by Function(...)(data, record, context)
\* at 273-281 on the value d of data[path]: "true" or "false", "throw" for an
\* exception raised while it runs, "syntax" when Function cannot compile it
RunExpression(e, d) ==
  CASE e.form = "true" -> "true"
    [] e.form = "eq" -> IF d = Word(e.word) THEN "true" ELSE "false"
    [] e.form = "isnull" -> IF d.t = "null" THEN "true" ELSE "false"
    [] e.form = "upper" ->
         IF d.t = "null" THEN "false"                \* the guard of line 306
         ELSE IF ~HasMethod(d, "toUpperCase") THEN "throw"
         ELSE IF Invoke(d, "toUpperCase", <<>>) = Word(e.word) THEN "true" ELSE "false"
    [] e.form = "call" -> IF d.t = "null" THEN "false" ELSE "throw"
    [] OTHER -> "syntax"

\* the text of an expression, in the atoms of a template
ExprText(e) ==
  CASE e.form = "eq" -> <<Ref(e.path), Lit(" == '"), Lit(e.word), Lit("'")>>
    [] e.form = "isnull" -> <<Ref(e.path), Lit(" == null")>>
    [] e.form = "upper" -> <<Ref(e.path), Call("toUpperCase", <<>>), Lit(" == '"),
                             Lit(e.word), Lit("'")>>
    [] e.form = "call" -> <<Ref(e.path), Call("nosuch", <<>>)>>
    [] e.form = "syntax" -> <<Ref(e.path), Lit(" ==")>>
    [] e.form = "true" -> <<Lit("true")>>
    [] e.form = "rec" -> <<Lit("record."), Lit(e.path[1]), Lit(" == '"), Lit(e.word), Lit("'")>>
    [] OTHER -> <<>>

\* data['path'] (296) and (data['path'] != null ? data['path'].m() : null) (306)
DataRef(path) == [k |-> "data", p |-> path, m |-> ""]
Guarded(path, call) == [k |-> "guarded", p |-> path, m |-> call.m]

\* faulty variant of ProcessExpressionWithMethodCalls: the value of a
\* reference is written into the code as a literal
RECURSIVE ProcessExpressionInlinesValues(_, _)
ProcessExpressionInlinesValues(text, data) ==
  IF text = <<>> THEN <<>>
  ELSE (IF Head(text).k = "ref" THEN StringOf(data) ELSE <<Head(text)>>)
         \o ProcessExpressionInlinesValues(Tail(text), data)

\* processExpressionWithMethodCalls (292-310): every {path} becomes
\* data['path'], and a method chain after it is put behind the null guard
RECURSIVE ProcessExpressionWithMethodCalls(_, _)
ProcessExpressionWithMethodCalls(text, data) ==
  IF text = <<>> THEN <<>>
  ELSE IF Head(text).k = "ref" /\ Len(text) > 1 /\ text[2].k = "call"
       THEN <<Guarded(Head(text).p, text[2])>>
              \o ProcessExpressionWithMethodCalls(Tail(Tail(text)), data)
  ELSE IF Head(text).k = "ref"
       THEN <<DataRef(Head(text).p)>> \o ProcessExpressionWithMethodCalls(Tail(text), data)
  ELSE <<Head(text)>> \o ProcessExpressionWithMethodCalls(Tail(text), data)

\* Function('data', 'record', 'context', ...)(data, this.record, this.context)
\* (273-281): the generated function sees the data map and the record
RunGenerated(e, d, rec) ==
  IF e.form = "rec"
  THEN IF Get(rec, e.path[1]) = Word(e.word) THEN "true" ELSE "false"
  ELSE RunExpression(e, d)

\* faulty variant of SafeEvaluateWithData: a fault shows the button
SafeEvaluateFailsOpen(e, d, rec) ==
  RunGenerated(e, d, rec) # "false"

\* safeEvaluateWithData (266-286): the catch inside the generated function
\* (277-280) and the catch around its construction (282-285)
SafeEvaluateWithData(e, d, rec) ==
  RunGenerated(e, d, rec) = "true"

\* evaluateAsync (50-66)
EvaluateAsync(e, ev, cs) ==
  IF e = NoExpr THEN [value |-> TRUE, data |-> Null, ev |-> ev, calls |-> cs, failed |-> FALSE]
  ELSE LET c == CreateDataObjectAsync(e, ev, cs)
       IN [value |-> SafeEvaluateWithData(e, c.data, ev.rec), data |-> c.data, ev |-> c.ev,
           calls |-> c.calls, failed |-> c.failed]

\* ---------------------------------------------- the instance and its page
MaxClicks == 1     \* clicks on rendered buttons in one behaviour

ZeroGuid == "00000000-0000-0000-0000-000000000000"
RecordIds == {"", ZeroGuid, "c1"}

\* line 678
ValidRecordIdEmptyOnly(id) == id # ""      \* faulty variant: the all-zero guid passes
ValidRecordId(id) == id # "" /\ id # ZeroGuid

\* what webAPI.retrieveRecord rejects with: an Error, or the platform's plain
\* error object
Rejections == {[isError |-> TRUE, message |-> "Network error"],
               [isError |-> FALSE, message |-> "Record not found"]}

\* line 689
ErrorMessageOf(rejection) ==
  IF rejection.isError THEN rejection.message ELSE "Unknown error occurred"

\* the global Xrm of the page: with Navigation.openAlertDialog, without it, or
\* not declared at all (a page outside the model-driven host)
XrmKinds == {"dialog", "bare", "undeclared"}

\* ButtonConfig (463-474)
Config(id, pos, label, url, script, vis, link) ==
  [id |-> id, theia_buttonposition |-> pos, theia_buttonlabel |-> label,
   theia_buttontooltip |-> <<>>, theia_url |-> url, theia_actionscript |-> script,
   theia_visibilityexpression |-> vis, theia_showaslink |-> link, isVisible |-> FALSE]

ScriptOk == <<Lit("go("), Ref(<<"f">>), Lit(");")>>
ScriptThrows == <<Lit("throw new Error('boom');")>>
UrlText == <<Lit("https://x/"), Ref(<<"a", "id">>)>>

ConfigLists ==
  { <<>>,
    \* positions out of order and tied; visible, hidden and faulty expressions
    << Config(1, 2, <<Lit("Hi "), Ref(<<"f">>)>>, UrlText, <<>>, NoExpr, FALSE),
       Config(2, 1, <<Lit("B")>>, <<>>, ScriptOk, Expr("eq", <<"f">>, "abc"), FALSE),
       Config(3, 2, <<Lit("C")>>, UrlText, ScriptThrows, Expr("true", <<>>, ""), FALSE),
       Config(4, 1, <<Lit("D")>>, UrlText, <<>>, Expr("syntax", <<"f">>, ""), FALSE) >>,
    \* a related record used by the label and by the visibility expression
    << Config(1, 1, <<Ref(<<"a", "f">>)>>, <<>>, <<>>, Expr("eq", <<"a", "f">>, "x1"), FALSE),
       Config(2, 1, <<Lit("N")>>, UrlText, ScriptOk, Expr("isnull", <<"a", "f">>, ""), TRUE),
       Config(3, 0, <<Lit("U")>>, <<>>, <<>>, Expr("upper", <<"f">>, "ABC"), FALSE) >>,
    << Config(1, 3, <<Lit("T")>>, UrlText, ScriptThrows, NoExpr, FALSE),
       Config(2, 3, <<Lit("M")>>, <<>>, <<>>, Expr("call", <<"f">>, ""), FALSE) >> }

\* the form's record in the store, and the account its lookup a points at
PBaseRecords == {("f" :> Word("abc")) @@ LinkTo("a", "a1"),
                 ("f" :> Word(DateText)) @@ LinkTo("a", "a1"),
                 ("f" :> Null)}
PStores ==
  {(KBase :> b) @@ (KRel :> r) @@ (KRel2 :> NotFound) :
      b \in PBaseRecords \cup {NotFound}, r \in {("f" :> Word("x1")), NotFound}}

\* new ExpressionEvaluator(record, context).  expressionEvaluator holds the
\* evaluator objects made so far (objs) and which of them the React state
\* refers to (cur; 0 for null).
NewEvaluator(rec) == [rec |-> rec, related |-> [x \in {} |-> NullRecord]]

\* a click: the button clicked and whether the render held an evaluator; the
\* scripts run, the urls opened, the dialogs and alerts shown
NoClick == [id |-> 0, path |-> "none", ran |-> <<>>, opened |-> <<>>, dialogs |-> 0,
            alerts |-> 0, rejected |-> FALSE,
            button |-> Config(0, 0, <<>>, <<>>, <<>>, NoExpr, FALSE), evaluator |-> FALSE]
NoFx == [calls |-> <<>>, clicks |-> 0, click |-> NoClick]

\* the expression e against the records recs[1] and recs[2]: the code its
\* text is rewritten to, the data map entry of its reference and the result;
\* tv: the value the template resolver finds for the same path on recs[1]
NoTrial ==
  [e |-> NoExpr, recs |-> <<EmptyRecord, EmptyRecord>>, ran |-> <<FALSE, FALSE>>,
   code |-> <<<<>>, <<>>>>, data |-> <<Null, Null>>, value |-> <<FALSE, FALSE>>,
   resolved |-> FALSE, tv |-> Undef]

\* line 866: [...configs].sort(by theia_buttonposition), a stable sort
InsertByPosition(c, sorted) ==
  LET n == Cardinality({i \in DOMAIN sorted :
                          sorted[i].theia_buttonposition <= c.theia_buttonposition})
  IN SubSeq(sorted, 1, n) \o <<c>> \o SubSeq(sorted, n + 1, Len(sorted))
RECURSIVE SortedPrefix(_, _)
SortedPrefix(cs, n) == IF n = 0 THEN <<>> ELSE InsertByPosition(cs[n], SortedPrefix(cs, n - 1))
SortedConfigs(cs) == SortedPrefix(cs, Len(cs))

\* a resolveConfigs invocation (864-894) of a render holding the record rec
\* and the evaluator number ev, before its first await
NewPassOf(cs, rec, ev) ==
  [phase |-> IF cs = <<>> THEN "done" ELSE "run", rec |-> rec, ev |-> ev,
   sorted |-> SortedConfigs(cs), idx |-> 1, newConfigs |-> <<>>, calls |-> <<>>,
   evals |-> <<>>]
NewPass(rec, ev) == NewPassOf(configs, rec, ev)

\* lines 871-878: the awaits of the four replacements, one after the other,
\* each in the world the one before it left
RECURSIVE ResolveTexts(_, _, _, _, _), ResolveTextsAfter(_, _, _, _, _)
ResolveTexts(texts, rec, i, outs, w) ==
  IF i > Len(texts) THEN [outs |-> outs, w |-> w]
  ELSE ResolveTextsAfter(texts, rec, i, outs,
                         AsyncReplaceDynamicValues(texts[i], TRUE, rec, w))
ResolveTextsAfter(texts, rec, i, outs, r) ==
  ResolveTexts(texts, rec, i + 1, Append(outs, r.out), r.w)

\* lines 871-878: the config with its four text fields replaced
ResolvedConfig(c, r) ==
  [config |-> [c EXCEPT !.theia_buttonlabel = r.outs[1], !.theia_buttontooltip = r.outs[2],
                        !.theia_url = r.outs[3], !.theia_actionscript = r.outs[4]],
   w |-> r.w]

\* lines 871-878: the four text fields of one config, in this order
ResolveFields(c, rec, w) ==
  ResolvedConfig(c, ResolveTexts(<<c.theia_buttonlabel, c.theia_buttontooltip, c.theia_url,
                                   c.theia_actionscript>>, rec, 1, <<>>, w))

\* lines 881-882: !expression || await expressionEvaluator?.evaluateAsync(expression)
IsVisible(e, ev, evaluators, cs) ==
  IF e = NoExpr \/ ev = 0
  THEN [value |-> e = NoExpr, data |-> Null, ev |-> NewEvaluator(EmptyRecord), calls |-> cs,
        failed |-> FALSE]
  ELSE EvaluateAsync(e, evaluators[ev], cs)

\* faulty variant of Render: the error branch is missing
RenderIgnoresError ==
  IF isLoading[1] THEN [kind |-> "info", text |-> "Loading buttons...", buttons |-> <<>>]
  ELSE [kind |-> "buttons", text |-> "", buttons |-> resolvedConfigs]

\* lines 917-948: what the component renders
Render ==
  IF error[1] THEN [kind |-> "error", text |-> errorMessage, buttons |-> <<>>]
  ELSE IF isLoading[1] THEN [kind |-> "info", text |-> "Loading buttons...", buttons |-> <<>>]
  ELSE [kind |-> "buttons", text |-> "", buttons |-> resolvedConfigs]

\* ------------------------------------------------------------------- Init
\* the instance of SpecP before it is followed
PIdle ==
  /\ configs = <<>>
  /\ recordId = "c1"
  /\ host = [xrm |-> "dialog", rejection |-> [isError |-> TRUE, message |-> "Network error"]]
  /\ expressionEvaluator = [cur |-> 0, objs |-> <<>>]
  /\ resolvedConfigs = <<>>
  /\ errorMessage = ""
  /\ passes = <<>>
  /\ fetchState = "due"
  /\ fx = NoFx
  /\ trial = NoTrial

Init ==
  /\ cache = [k \in Keys |-> Absent]
  /\ calls = [i \in Slots |-> FreeCall]
  /\ mounted = [c \in Comps |-> "yes"]
  /\ validId \in {v \in [Comps -> BOOLEAN] : v[1]}
  /\ fetchedRecordKeys = [c \in Comps |-> {}]
  /\ saveCounter = [c \in Comps |-> 0]
  /\ fetchDue = [c \in Comps |-> TRUE]
  /\ record = [c \in Comps |-> "null"]
  /\ isLoading = [c \in Comps |-> TRUE]
  /\ error = [c \in Comps |-> FALSE]
  /\ saves = 0
  /\ store = [k \in Keys |-> NotFound]
  /\ baseRec = EmptyRecord
  /\ rs = IdleRs
  /\ last = NoStep
  /\ PIdle

\* one instance holds its base record (fetched through the cache) and resolves
\* one template against it; the related records are not cached yet
InitR ==
  /\ baseRec \in BaseRecords
  /\ store \in Stores
  /\ rs \in {[IdleRs EXCEPT !.text = t] : t \in Templates}
  /\ cache = [k \in Keys |-> IF k = KBase THEN Stored(baseRec) ELSE Absent]
  /\ calls = [i \in Slots |-> FreeCall]
  /\ mounted = [c \in Comps |-> "yes"]
  /\ validId = [c \in Comps |-> TRUE]
  /\ fetchedRecordKeys = [c \in Comps |-> IF c = 1 THEN {KBase} ELSE {}]
  /\ saveCounter = [c \in Comps |-> 0]
  /\ fetchDue = [c \in Comps |-> c # 1]
  /\ record = [c \in Comps |-> IF c = 1 THEN "loaded" ELSE "null"]
  /\ isLoading = [c \in Comps |-> c # 1]
  /\ error = [c \in Comps |-> FALSE]
  /\ saves = 0
  /\ last = NoStep
  /\ PIdle

\* the instance as it is mounted: its props, its page and the data store
InitP ==
  /\ configs \in ConfigLists
  /\ recordId \in RecordIds
  /\ host \in [xrm : XrmKinds, rejection : Rejections]
  /\ store \in PStores
  /\ expressionEvaluator = [cur |-> 0, objs |-> <<>>]
  /\ resolvedConfigs = <<>>
  /\ errorMessage = ""
  /\ passes = <<>>
  /\ fetchState = "due"
  /\ fx = NoFx
  /\ trial = NoTrial
  /\ cache = [k \in Keys |-> Absent]
  /\ calls = [i \in Slots |-> FreeCall]
  /\ mounted = [c \in Comps |-> "yes"]
  /\ validId = [c \in Comps |-> TRUE]
  /\ fetchedRecordKeys = [c \in Comps |-> {}]
  /\ saveCounter = [c \in Comps |-> 0]
  /\ fetchDue = [c \in Comps |-> FALSE]
  /\ record = [c \in Comps |-> "null"]
  /\ isLoading = [c \in Comps |-> TRUE]
  /\ error = [c \in Comps |-> FALSE]
  /\ saves = 0
  /\ baseRec = EmptyRecord
  /\ rs = IdleRs
  /\ last = NoStep

\* ---------------------------------------------------------------- actions
\* fetchRecord (676-696), run by the effect of 699-701
FetchRecord(c) ==
  /\ mounted[c] = "yes" /\ fetchDue[c]
  /\ fetchDue' = [fetchDue EXCEPT ![c] = FALSE]
  /\ UNCHANGED <<mounted, validId, saveCounter, saves, rvars>>
  /\ IF ~validId[c]
     THEN /\ record' = [record EXCEPT ![c] = "empty"]
          /\ isLoading' = [isLoading EXCEPT ![c] = FALSE]
          /\ last' = Step("norecord", 0, "", NoRec, FALSE)
          /\ UNCHANGED <<cache, calls, fetchedRecordKeys, error>>
     ELSE /\ FreeSlots # {}
          /\ Enter(c, KBase, "base", 0, Alloc, Outstanding(KBase) # {})

\* fetchSingleLevelRecord (706-722) for the lookup that points at KRel, asked
\* for by a resolution pass or a click of a mounted instance holding a record
FetchSingleLevelRecord(c) ==
  /\ mounted[c] = "yes" /\ record[c] = "loaded"
  /\ FreeSlots # {}
  /\ Enter(c, KRel, "lookup", 0, Alloc, Outstanding(KRel) # {})
  /\ UNCHANGED <<mounted, validId, saveCounter, fetchDue, saves, rvars>>

\* line 652-653: the timer of a polling caller fires and it calls itself again
TimerFires(i) ==
  /\ calls[i].st = "wait"
  /\ Enter(calls[i].comp, calls[i].key, calls[i].kind, calls[i].retry + 1, i, calls[i].behind)
  /\ UNCHANGED <<mounted, validId, saveCounter, fetchDue, saves, rvars>>

\* line 664-666: the data store answers
FetchResolve(i) ==
  /\ calls[i].st = "fetch"
  /\ LET c == calls[i].comp
         k == calls[i].key
         r == [by |-> c, epoch |-> calls[i].epoch]
     IN /\ cache' = OnResolve(cache, k, r)
        /\ Continue(c, calls[i].kind, TRUE, r)
        /\ last' = Step("resolve", c, k, r, FALSE)
  /\ calls' = [calls EXCEPT ![i] = FreeCall]
  /\ UNCHANGED <<mounted, validId, fetchedRecordKeys, saveCounter, fetchDue, saves, rvars>>

\* line 667-670 (and the catch of 654-657 at every polling level above it)
FetchReject(i) ==
  /\ calls[i].st = "fetch"
  /\ LET c == calls[i].comp
         k == calls[i].key
     IN /\ cache' = OnReject(cache, k)
        /\ Continue(c, calls[i].kind, FALSE, NoRec)
        /\ last' = Step("reject", c, k, NoRec, FALSE)
  /\ calls' = [calls EXCEPT ![i] = FreeCall]
  /\ UNCHANGED <<mounted, validId, fetchedRecordKeys, saveCounter, fetchDue, saves, rvars>>

\* the host's post-save event: handlePostSave (585-591) of every instance
\* whose handler is registered
PostSave ==
  /\ saves < MaxSaves
  /\ \E c \in Comps : mounted[c] = "yes"
  /\ saves' = saves + 1
  /\ cache' = Invalidate(cache, UNION {PostSaveKeys(c) : c \in {d \in Comps : mounted[d] = "yes"}})
  /\ saveCounter' = [c \in Comps |-> IF mounted[c] = "yes" THEN saveCounter[c] + 1 ELSE saveCounter[c]]
  /\ fetchDue' = [c \in Comps |-> fetchDue[c] \/ mounted[c] = "yes"]
  /\ last' = Step("postsave", 0, "", NoRec, FALSE)
  /\ UNCHANGED <<calls, mounted, validId, fetchedRecordKeys, record, isLoading, error, rvars>>

\* the unmount of instance c: the cleanup of the effect at 610-617 (and of
\* 598-602, which removes the post-save handler).  The instance's React state
\* and its ref are discarded with it: nothing reads them again.
Unmount(c) ==
  /\ mounted[c] = "yes"
  /\ mounted' = [mounted EXCEPT ![c] = "gone"]
  /\ cache' = Invalidate(cache, CleanupKeys(c))
  /\ fetchedRecordKeys' = [fetchedRecordKeys EXCEPT ![c] = {}]
  /\ saveCounter' = [saveCounter EXCEPT ![c] = 0]
  /\ fetchDue' = [fetchDue EXCEPT ![c] = FALSE]
  /\ record' = [record EXCEPT ![c] = "null"]
  /\ isLoading' = [isLoading EXCEPT ![c] = FALSE]
  /\ error' = [error EXCEPT ![c] = FALSE]
  /\ last' = Step("unmount", 0, "", NoRec, FALSE)
  /\ UNCHANGED <<calls, validId, saves, rvars>>

Next ==
  \/ \E c \in Comps : FetchRecord(c)
  \/ \E c \in Comps : FetchSingleLevelRecord(c)
  \/ \E i \in Slots : TimerFires(i)
  \/ \E i \in Slots : FetchResolve(i)
  \/ \E i \in Slots : FetchReject(i)
  \/ PostSave
  \/ \E c \in Comps : Unmount(c)

Spec == Init /\ [][Next]_vars

NextR ==
  \/ R_Start
  \/ R_ResolveRef
  \/ R_Hop
  \/ R_FetchResolve
  \/ R_FetchReject
  \/ R_Replace
  \/ R_Again

SpecR == InitR /\ [][NextR]_vars

\* the data store answers every request it was sent (resolves or rejects it)
Settle(i) == FetchResolve(i) \/ FetchReject(i)
FairSpec == Spec /\ \A i \in Slots : WF_vars(Settle(i))

\* the timers of the polling callers fire (setTimeout, 652); the data store
\* need not answer
TimerSpec == Spec /\ \A i \in Slots : WF_vars(TimerFires(i))

\* ------------------------------------------- the instance, step by step
\* what SpecP leaves alone
qvars == <<calls, mounted, validId, saveCounter, fetchDue, saves, store, rs, last,
           configs, recordId, host, trial>>

\* faulty variant of AfterAwait: the effect does not run again for the render
\* that has the new evaluator
AfterAwaitOnePass(rec) ==
  /\ baseRec' = rec
  /\ expressionEvaluator' = [cur |-> Len(expressionEvaluator.objs) + 1,
                             objs |-> Append(expressionEvaluator.objs, NewEvaluator(rec))]
  /\ passes' = Append(passes, NewPass(rec, expressionEvaluator.cur))
  /\ resolvedConfigs' = IF configs = <<>> THEN <<>> ELSE resolvedConfigs
  /\ isLoading' = [isLoading EXCEPT ![1] = FALSE]
  /\ fetchState' = "done"

\* the renders after fetchRecord's await (686-687, 690-694).  Outside a React
\* handler every set-state call renders at once (React 16.14, the platform
\* library of the manifest): the effect of 861-897 runs for the render that
\* has the record and still the previous evaluator, and again for the render
\* that has the new evaluator.
AfterAwait(rec) ==
  LET old == expressionEvaluator.cur
      new == Len(expressionEvaluator.objs) + 1
  IN /\ baseRec' = rec
     /\ expressionEvaluator' = [cur |-> new,
                                objs |-> Append(expressionEvaluator.objs, NewEvaluator(rec))]
     /\ passes' = passes \o <<NewPass(rec, old), NewPass(rec, new)>>
     /\ resolvedConfigs' = IF configs = <<>> THEN <<>> ELSE resolvedConfigs
     /\ isLoading' = [isLoading EXCEPT ![1] = FALSE]
     /\ fetchState' = "done"

\* fetchRecord (676-696) up to its await, or to its end when no record id is
\* bound: then its set-state calls are made inside the effect and render once
P_FetchRecord ==
  /\ fetchState = "due"
  /\ IF ~ValidRecordId(recordId)
     THEN /\ record' = [record EXCEPT ![1] = "empty"]
          /\ baseRec' = EmptyRecord
          /\ expressionEvaluator' = [cur |-> 1, objs |-> <<NewEvaluator(EmptyRecord)>>]
          /\ passes' = <<NewPass(EmptyRecord, 1)>>
          /\ resolvedConfigs' = IF configs = <<>> THEN <<>> ELSE resolvedConfigs
          /\ isLoading' = [isLoading EXCEPT ![1] = FALSE]
          /\ fetchState' = "done"
          /\ UNCHANGED <<cache, fetchedRecordKeys, fx>>
     ELSE /\ cache' = [cache EXCEPT ![KBase] = Loading]
          /\ fetchedRecordKeys' = [fetchedRecordKeys EXCEPT ![1] = @ \cup {KBase}]
          /\ fx' = [fx EXCEPT !.calls = Append(@, KBase)]
          /\ fetchState' = "await"
          /\ UNCHANGED <<record, baseRec, expressionEvaluator, passes, resolvedConfigs,
                         isLoading>>
  /\ UNCHANGED <<error, errorMessage, qvars>>

\* faulty variant of P_BaseResolve: a record that arrives clears the error
P_BaseResolveClearsError ==
  /\ fetchState = "await" /\ store[KBase] # NotFound
  /\ cache' = OnResolve(cache, KBase, store[KBase])
  /\ record' = [record EXCEPT ![1] = "loaded"]
  /\ error' = [error EXCEPT ![1] = FALSE]
  /\ AfterAwait(store[KBase])
  /\ UNCHANGED <<fetchedRecordKeys, errorMessage, fx, qvars>>

\* lines 664-666 and 686-687, 694: the store answers with the form's record
P_BaseResolve ==
  /\ fetchState = "await" /\ store[KBase] # NotFound
  /\ cache' = OnResolve(cache, KBase, store[KBase])
  /\ record' = [record EXCEPT ![1] = "loaded"]
  /\ AfterAwait(store[KBase])
  /\ UNCHANGED <<fetchedRecordKeys, error, errorMessage, fx, qvars>>

\* lines 667-670 and 688-694: the store rejects the request
P_BaseReject ==
  /\ fetchState = "await" /\ store[KBase] = NotFound
  /\ cache' = OnReject(cache, KBase)
  /\ error' = [error EXCEPT ![1] = TRUE]
  /\ errorMessage' = ErrorMessageOf(host.rejection)
  /\ record' = [record EXCEPT ![1] = "empty"]
  /\ AfterAwait(EmptyRecord)
  /\ UNCHANGED <<fetchedRecordKeys, fx, qvars>>

\* lines 879-889: the pass number n after the replacements r and the
\* visibility v of its current config
PassStepWith(n, r, v) ==
  LET p == passes[n]
      c == p.sorted[p.idx]
      asked == p.ev # 0 /\ c.theia_visibilityexpression # NoExpr
      out == IF v.value THEN Append(p.newConfigs, [r.config EXCEPT !.isVisible = TRUE])
             ELSE p.newConfigs
      end == p.idx = Len(p.sorted)
  IN /\ cache' = r.w.cache
     /\ fetchedRecordKeys' = [fetchedRecordKeys EXCEPT ![1] = r.w.keys]
     /\ fx' = [fx EXCEPT !.calls = @ \o v.calls]
     /\ expressionEvaluator' =
          IF asked THEN [expressionEvaluator EXCEPT !.objs[p.ev] = v.ev]
          ELSE expressionEvaluator
     /\ passes' = [passes EXCEPT ![n] =
          [p EXCEPT !.idx = p.idx + 1, !.newConfigs = out, !.calls = @ \o v.calls,
                    !.evals = Append(@, [expr |-> c.theia_visibilityexpression,
                                         asked |-> asked, data |-> v.data,
                                         failed |-> v.failed, value |-> v.value]),
                    !.phase = IF end THEN "done" ELSE "run"]]
     /\ resolvedConfigs' = IF end THEN out ELSE resolvedConfigs

\* lines 881-882: the visibility of the current config of the pass number n,
\* evaluated after the replacements r
PassStepResolved(n, r) ==
  PassStepWith(n, r, IsVisible(passes[n].sorted[passes[n].idx].theia_visibilityexpression,
                               passes[n].ev, expressionEvaluator.objs, r.w.calls))

\* lines 870-889: one config of the sorted list in the pass number n, and
\* setResolvedConfigs when it was the last one
P_PassStep(n) ==
  /\ n \in DOMAIN passes /\ passes[n].phase = "run"
  /\ PassStepResolved(n, ResolveFields(passes[n].sorted[passes[n].idx], passes[n].rec,
                                       World(cache, fetchedRecordKeys[1], <<>>)))
  /\ UNCHANGED <<record, baseRec, isLoading, error, errorMessage, fetchState, qvars>>

\* does the script text throw when it runs
Throws(script) == \E i \in DOMAIN script : script[i] = Lit("throw new Error('boom');")

\* safeExecute (317-348 of the evaluator) on a page whose Xrm is xrm: the
\* catch inside the generated function shows the error and throws it again;
\* the optional chain on an Xrm that is not declared raises a ReferenceError
SafeExecute(script, xrm) ==
  IF ~Throws(script) THEN [dialogs |-> 0, alerts |-> 0, rejected |-> FALSE]
  ELSE CASE xrm = "dialog" -> [dialogs |-> 1, alerts |-> 0, rejected |-> TRUE]
         [] xrm = "bare" -> [dialogs |-> 0, alerts |-> 1, rejected |-> TRUE]
         [] OTHER -> [dialogs |-> 0, alerts |-> 0, rejected |-> TRUE]

\* lines 907-908: the click once the script text parsed is there
ScriptClick(c, parsed, x) ==
  [click |-> [id |-> c.id, path |-> "script", ran |-> <<parsed.out>>, opened |-> <<>>,
              dialogs |-> x.dialogs, alerts |-> x.alerts, rejected |-> x.rejected,
              button |-> c, evaluator |-> TRUE],
   w |-> parsed.w]
ScriptParsed(c, parsed) == ScriptClick(c, parsed, SafeExecute(parsed.out, host.xrm))

\* handleClick (904-915) of the render, for the button of config c
HandleClick(c, w) ==
  IF c.theia_actionscript # <<>> /\ expressionEvaluator.cur # 0
  THEN ScriptParsed(c, AsyncReplaceDynamicValues(c.theia_actionscript, record[1] # "null",
                                                 baseRec, w))
  ELSE IF c.theia_url # <<>>
  THEN [click |-> [NoClick EXCEPT !.id = c.id, !.path = "url", !.opened = <<c.theia_url>>,
                                  !.button = c, !.evaluator = expressionEvaluator.cur # 0],
        w |-> w]
  ELSE [click |-> [NoClick EXCEPT !.id = c.id, !.path = "nothing", !.button = c,
                                  !.evaluator = expressionEvaluator.cur # 0],
        w |-> w]

\* lines 933-945: the click on the button of config c, h being what
\* handleClick does for it
ClickOn(c, h) ==
  IF c.theia_showaslink
  THEN /\ fx' = [fx EXCEPT !.clicks = @ + 1,
                           !.click = [NoClick EXCEPT !.id = c.id, !.path = "link",
                                                     !.opened = <<c.theia_url>>,
                                                     !.button = c,
                                                     !.evaluator = expressionEvaluator.cur # 0]]
       /\ UNCHANGED <<cache, fetchedRecordKeys>>
  ELSE /\ fx' = [fx EXCEPT !.clicks = @ + 1, !.click = h.click,
                           !.calls = @ \o h.w.calls]
       /\ cache' = h.w.cache
       /\ fetchedRecordKeys' = [fetchedRecordKeys EXCEPT ![1] = h.w.keys]

\* a click on the i-th rendered button (933-945): the Link of 498-500 is
\* followed by the browser, the DefaultButton calls handleClick
P_Click(i) ==
  /\ fx.clicks < MaxClicks
  /\ i \in DOMAIN Render.buttons
  /\ ClickOn(Render.buttons[i],
             HandleClick(Render.buttons[i], World(cache, fetchedRecordKeys[1], <<>>)))
  /\ UNCHANGED <<record, baseRec, isLoading, error, errorMessage, fetchState,
                 expressionEvaluator, resolvedConfigs, passes, qvars>>

NextP ==
  \/ P_FetchRecord
  \/ P_BaseResolve
  \/ P_BaseReject
  \/ \E n \in DOMAIN passes : P_PassStep(n)
  \/ \E i \in DOMAIN resolvedConfigs : P_Click(i)

SpecP == InitP /\ [][NextP]_vars

\* ------------------------------- the instance with its passes overlapping
\* the config list of the form, and the list it is replaced with when the
\* button filter changes (index.ts, 30-67)
QConfigs ==
  << Config(1, 1, <<Lit("V")>>, <<>>, <<>>, Expr("eq", <<"a", "f">>, "x1"), FALSE),
     Config(2, 2, <<Ref(<<"a", "f">>), Lit(" "), Ref(<<"f">>)>>, <<>>, <<>>,
            Expr("eq", <<"f">>, "abc"), FALSE) >>
QConfigsAfter ==
  << Config(4, 1, <<Lit("Z "), Ref(<<"a", "f">>)>>, <<>>, <<>>, NoExpr, FALSE) >>

\* the form's record before and after the save
QRecord == ("f" :> Word("abc")) @@ LinkTo("a", "a1")
QSaved == ("f" :> Word("x2")) @@ LinkTo("a", "a1")
QStores ==
  {(KBase :> b) @@ (KRel :> r) @@ (KRel2 :> NotFound) :
      b \in {QRecord, NotFound}, r \in {("f" :> Word("x1")), NotFound}}

InitQ ==
  /\ configs = QConfigs
  /\ recordId = "c1"
  /\ host = [xrm |-> "dialog", rejection |-> [isError |-> TRUE, message |-> "Network error"]]
  /\ store \in QStores
  /\ expressionEvaluator = [cur |-> 0, objs |-> <<>>]
  /\ resolvedConfigs = <<>>
  /\ errorMessage = ""
  /\ passes = <<>>
  /\ fetchState = "due"
  /\ fx = NoFx
  /\ trial = NoTrial
  /\ cache = [k \in Keys |-> Absent]
  /\ calls = [i \in Slots |-> FreeCall]
  /\ mounted = [c \in Comps |-> "yes"]
  /\ validId = [c \in Comps |-> TRUE]
  /\ fetchedRecordKeys = [c \in Comps |-> {}]
  /\ saveCounter = [c \in Comps |-> 0]
  /\ fetchDue = [c \in Comps |-> FALSE]
  /\ record = [c \in Comps |-> "null"]
  /\ isLoading = [c \in Comps |-> TRUE]
  /\ error = [c \in Comps |-> FALSE]
  /\ saves = 0
  /\ baseRec = EmptyRecord
  /\ rs = IdleRs
  /\ last = NoStep

\* what the passes and the host events of SpecQ leave alone
hvars == <<calls, mounted, validId, fetchDue, rs, last, recordId, host, trial>>

\* the requests of the next config of the pass number n, were it to run now:
\* those of its four replacements (through window.recordCache), then those
\* of its visibility expression (sent by the evaluator itself)
ResolverCalls(n) ==
  ResolveFields(passes[n].sorted[passes[n].idx], passes[n].rec,
                World(cache, fetchedRecordKeys[1], <<>>)).w.calls
EvaluatorCalls(n) ==
  IsVisible(passes[n].sorted[passes[n].idx].theia_visibilityexpression, passes[n].ev,
            expressionEvaluator.objs, <<>>).calls

\* the pass number n finds another caller's loading marker and polls
\* (650-653); it is followed again when the marker is gone
Polling(n) ==
  /\ passes[n].phase = "run" /\ ResolverCalls(n) # <<>>
  /\ cache[ResolverCalls(n)[1]].kind = "loading"

\* the pass number n can go on without an answer of the store or a timer;
\* Quiet: no pass can, the continuations of the settled promises have run
Runnable(n) == passes[n].phase = "run" /\ ~Polling(n)
Quiet == \A n \in DOMAIN passes : ~Runnable(n)

\* the pass number n runs to its next request: lines 643-661 set the loading
\* marker before webAPI.retrieveRecord is awaited (664); the evaluator's
\* retrieveRecord (253-259) leaves window.recordCache alone
Q_PassSuspend(n) ==
  /\ n \in DOMAIN passes /\ Runnable(n)
  /\ IF ResolverCalls(n) # <<>>
     THEN /\ cache' = [cache EXCEPT ![ResolverCalls(n)[1]] = Loading]
          /\ fetchedRecordKeys' = [fetchedRecordKeys EXCEPT ![1] = @ \cup {ResolverCalls(n)[1]}]
     ELSE /\ EvaluatorCalls(n) # <<>>
          /\ UNCHANGED <<cache, fetchedRecordKeys>>
  /\ passes' = [passes EXCEPT ![n].phase = "await"]
  /\ UNCHANGED <<record, baseRec, isLoading, error, errorMessage, fetchState, fx,
                 expressionEvaluator, resolvedConfigs, configs, store, saves, saveCounter,
                 hvars>>

\* lines 870-889: the pass number n goes on to the end of its current config
Q_PassConfig(n) ==
  /\ PassStepResolved(n, ResolveFields(passes[n].sorted[passes[n].idx], passes[n].rec,
                                       World(cache, fetchedRecordKeys[1], <<>>)))
  /\ UNCHANGED <<record, baseRec, isLoading, error, errorMessage, fetchState, configs,
                 store, saves, saveCounter, hvars>>

\* the current config of the pass number n needs no request
Q_PassRun(n) ==
  /\ n \in DOMAIN passes /\ Runnable(n)
  /\ ResolverCalls(n) = <<>> /\ EvaluatorCalls(n) = <<>>
  /\ Q_PassConfig(n)

\* the store answers the request of the pass number n
Q_PassAnswer(n) ==
  /\ n \in DOMAIN passes /\ passes[n].phase = "await"
  /\ Quiet
  /\ Q_PassConfig(n)

\* handlePostSave (585-591): the host has saved the form's record; the keys
\* of the instance leave the cache and fetchRecord is due again (696, 699-701)
Q_PostSave ==
  /\ saves < MaxSaves /\ fetchState = "done"
  /\ Quiet
  /\ saves' = saves + 1
  /\ saveCounter' = [saveCounter EXCEPT ![1] = @ + 1]
  /\ cache' = Invalidate(cache, PostSaveKeys(1))
  /\ \E b \in {QSaved, NotFound} : store' = [store EXCEPT ![KBase] = b]
  /\ fetchState' = "due"
  /\ UNCHANGED <<record, baseRec, isLoading, error, errorMessage, fx, fetchedRecordKeys,
                 expressionEvaluator, resolvedConfigs, configs, passes, hvars>>

\* the prop configs changes: the effect of 861-897 runs again, and starts a
\* pass when the render holds a record (862)
Q_ConfigChange ==
  /\ configs = QConfigs
  /\ Quiet
  /\ configs' = QConfigsAfter
  /\ passes' = IF record[1] = "null" THEN passes
               ELSE Append(passes, NewPassOf(QConfigsAfter, baseRec, expressionEvaluator.cur))
  /\ UNCHANGED <<record, baseRec, isLoading, error, errorMessage, fetchState, fx, cache,
                 fetchedRecordKeys, expressionEvaluator, resolvedConfigs, store, saves,
                 saveCounter, hvars>>

\* the store answers the request for the form's record
Q_BaseAnswer ==
  /\ Quiet
  /\ (P_BaseResolve \/ P_BaseReject)

NextQ ==
  \/ P_FetchRecord
  \/ Q_BaseAnswer
  \/ \E n \in DOMAIN passes : Q_PassSuspend(n)
  \/ \E n \in DOMAIN passes : Q_PassRun(n)
  \/ \E n \in DOMAIN passes : Q_PassAnswer(n)
  \/ Q_PostSave
  \/ Q_ConfigChange

SpecQ == InitQ /\ [][NextQ]_vars

\* the effect of 699-701 runs, and the data store answers the request for
\* the form's record: the answer is never left waiting for ever behind the
\* continuations of the passes
FairSpecQ ==
  SpecQ /\ WF_vars(P_FetchRecord) /\ WF_vars(P_BaseResolve \/ P_BaseReject)

\* ---------------------------------- the evaluator and the resolver side by side
\* the expressions tried: every form over a plain attribute, a lookup chain
\* of one and of two hops, and a chain ending in id
TrialPaths == {<<"f">>, <<"a", "f">>, <<"a", "b", "f">>, <<"a", "id">>}
TrialExprs ==
  {Expr(form, path, "abc") : form \in {"eq", "isnull", "upper", "call", "syntax"},
                            path \in TrialPaths}
  \cup {Expr("rec", <<"f">>, "abc"), Expr("true", <<>>, "")}
SecondRecords == {EmptyRecord, ("f" :> Word("abc")) @@ LinkTo("a", "a1"),
                  ("f" :> Word("x1")), ("f" :> Null) @@ IdOnly("a", "a1")}

InitE ==
  /\ trial \in {[NoTrial EXCEPT !.e = e, !.recs = <<a, b>>] :
                   e \in TrialExprs, a \in BaseRecords, b \in SecondRecords}
  /\ store \in Stores
  /\ configs = <<>>
  /\ recordId = "c1"
  /\ host = [xrm |-> "dialog", rejection |-> [isError |-> TRUE, message |-> "Network error"]]
  /\ expressionEvaluator = [cur |-> 0, objs |-> <<>>]
  /\ resolvedConfigs = <<>>
  /\ errorMessage = ""
  /\ passes = <<>>
  /\ fetchState = "due"
  /\ fx = NoFx
  /\ cache = [k \in Keys |-> Absent]
  /\ calls = [i \in Slots |-> FreeCall]
  /\ mounted = [c \in Comps |-> "yes"]
  /\ validId = [c \in Comps |-> TRUE]
  /\ fetchedRecordKeys = [c \in Comps |-> {}]
  /\ saveCounter = [c \in Comps |-> 0]
  /\ fetchDue = [c \in Comps |-> FALSE]
  /\ record = [c \in Comps |-> "null"]
  /\ isLoading = [c \in Comps |-> TRUE]
  /\ error = [c \in Comps |-> FALSE]
  /\ saves = 0
  /\ baseRec = EmptyRecord
  /\ rs = IdleRs
  /\ last = NoStep

\* what a trial leaves alone
evars == <<cache, calls, mounted, validId, fetchedRecordKeys, saveCounter, fetchDue,
           record, isLoading, error, saves, store, baseRec, rs, last,
           configs, recordId, host, expressionEvaluator, resolvedConfigs, errorMessage,
           passes, fetchState, fx>>

\* the trial after evaluateAsync's data map c is there (58-61)
EvaluatedWith(s, c) ==
  [trial EXCEPT !.ran[s] = TRUE,
                !.code[s] = ProcessExpressionWithMethodCalls(ExprText(trial.e), c.data),
                !.data[s] = c.data,
                !.value[s] = SafeEvaluateWithData(trial.e, c.data, trial.recs[s])]

\* evaluateAsync (50-66) of the expression on a new evaluator over recs[s]
E_Evaluate(s) ==
  /\ ~trial.ran[s]
  /\ trial' = EvaluatedWith(s, CreateDataObjectAsync(trial.e, NewEvaluator(trial.recs[s]), <<>>))
  /\ UNCHANGED evars

\* lines 781-804 of asyncReplaceDynamicValues for the token {path} of the
\* expression, on recs[1] and an empty window.recordCache
E_Resolve ==
  /\ ~trial.resolved
  /\ ExtractFieldReferences(trial.e) # <<>>
  /\ trial' = [trial EXCEPT !.resolved = TRUE,
                            !.tv = FieldValue([full |-> <<Ref(trial.e.path)>>,
                                               path |-> trial.e.path, meth |-> NoCall],
                                              trial.recs[1],
                                              World(cache, {}, <<>>)).v]
  /\ UNCHANGED evars

NextE ==
  \/ \E s \in {1, 2} : E_Evaluate(s)
  \/ E_Resolve

SpecE == InitE /\ [][NextE]_vars

\* ================================================================== claims
CallsOf(c) == {i \in Slots : calls[i].st # "free" /\ calls[i].comp = c}
IssuedNow(i) == calls'[i].st = "fetch" /\ calls[i].st # "fetch"

\* C1: for every cache key, at most one webAPI.retrieveRecord request for that
\* key is outstanding at any time.
C1_AtMostOneOutstanding ==
  \A k \in Keys : Cardinality(Outstanding(k)) <= 1

\* C2 (as stated): a call that starts while a request for its key is
\* outstanding never issues a request of its own.
C2_SecondCallerNeverFetches ==
  \A i \in Slots : calls[i].behind => calls[i].st # "fetch"

\* C2 (amended): a call that starts while a request for its key is outstanding
\* issues a request of its own only when it finds the key with neither record
\* nor loading marker, or still loading at its MAX_RETRIES-th poll; when it
\* returns without a request of its own it returns the record the cache holds.
C2_SecondCallerFetchesOnlyOnMissOrCap ==
  [][ /\ \A i \in Slots :
           (IssuedNow(i) /\ calls'[i].behind) =>
              LET e == cache[calls'[i].key]
              IN \/ e.kind = "absent"
                 \/ e.kind = "loading" /\ calls'[i].retry = MAX_RETRIES
      /\ (last'.op = "hit" /\ last'.behind) =>
              /\ cache[last'.key] = Stored(last'.rec)
              /\ \A i \in Slots : ~IssuedNow(i)
    ]_vars

\* C2 witness: a call that started behind another instance's outstanding
\* request has returned the record that request stored.
C2_Witness ==
  last.op = "hit" /\ last.behind /\ last.rec.by # last.comp /\ last.rec.by # 0

\* C3: no record of a request issued before a post-save invalidation is
\* stored in the cache, or served from it, after that invalidation.
C3_NoStaleAfterPostSave ==
  last.op \in {"resolve", "hit"} => last.rec.epoch >= saves

\* C4: handlePostSave leaves none of the keys the instance touched in the
\* cache and schedules fetchRecord again (saveCounter changes).
C4_PostSaveInvalidatesAndRefetches ==
  [][ saves' # saves =>
        \A c \in Comps : mounted[c] = "yes" =>
           /\ \A k \in fetchedRecordKeys[c] : cache'[k].kind = "absent"
           /\ saveCounter'[c] = saveCounter[c] + 1
           /\ fetchDue'[c]
    ]_vars

C4_Witness ==
  /\ last.op = "postsave"
  /\ \E c \in Comps : /\ mounted[c] = "yes" /\ fetchDue[c] /\ saveCounter[c] > 0
                      /\ {KBase, KRel} \subseteq fetchedRecordKeys[c]
                      /\ \A k \in fetchedRecordKeys[c] : cache[k].kind = "absent"

\* C5: a rejected request removes the key's loading marker and the caller gets
\* the error; every loading marker is eventually replaced or removed.
C5_RejectClearsMarker ==
  /\ [][ \A i \in Slots :
           (calls[i].st = "fetch" /\ calls'[i].st = "free" /\ last'.op = "reject") =>
              /\ cache'[calls[i].key].kind = "absent"
              /\ (calls[i].kind = "base" /\ mounted[calls[i].comp] = "yes")
                    => (error'[calls[i].comp] /\ ~isLoading'[calls[i].comp])
        ]_vars
  /\ \A k \in Keys : (cache[k].kind = "loading") ~> (cache[k].kind # "loading")

C5_Witness ==
  last.op = "reject" /\ cache[last.key].kind = "absent" /\ error[last.comp]

\* C6: once an instance is unmounted and none of its calls is in flight any
\* more, the cache holds no entry written by that instance.
C6_NoEntryLeftAfterUnmount ==
  \A c \in Comps :
    (mounted[c] = "gone" /\ CallsOf(c) = {}) =>
       \A k \in Keys : ~(cache[k].kind = "record" /\ cache[k].rec.by = c)

\* C7: a call that finds a completed record returns that record, issues no
\* request and leaves every cache entry unchanged.
C7_HitReturnsRecordNoFetch ==
  [][ (last'.op \in {"hit", "wait", "issue"} /\ cache[last'.key].kind = "record") =>
        /\ last'.op = "hit"
        /\ last'.rec = cache[last'.key].rec
        /\ cache' = cache
        /\ \A i \in Slots : calls'[i].st = "free" \/ calls'[i] = calls[i]
    ]_vars

C7_Witness ==
  last.op = "hit" /\ cache[last.key] = Stored(last.rec)

\* ---------------------------------------------- claims on the resolution
\* the record a lookup chain designates in the store, or null when a hop has
\* no usable id/type pair or its record cannot be retrieved
RECURSIVE FollowChain(_, _, _)
FollowChain(rec, path, i) ==
  IF i > Len(path) THEN rec
  ELSE LET id == Get(rec, IdField(path[i]))
           entity == Get(rec, LogicalNameField(path[i]))
       IN IF ~Usable(id, entity) \/ store[CacheKey(entity, id)] = NotFound
          THEN NullRecord
          ELSE FollowChain(store[CacheKey(entity, id)], path, i + 1)

\* C8: fetchRelatedRecord returns the record reached after every lookup of the
\* path, and null whenever any hop has no usable id/type pair.
C8_ChainResultIsTerminalOrNull ==
  (rs.phase = "resolve" /\ rs.idx > 1 /\ rs.chains = 1
     /\ Len(rs.refs[rs.idx - 1].path) > 1
     /\ ~IsIdField(FinalField(rs.refs[rs.idx - 1])))
  => rs.related = FollowChain(baseRec, LookupPath(rs.refs[rs.idx - 1]), 1)

\* C9: a token {a.b.f} whose lookup a resolves while the intermediate record
\* has no lookup b stays in the output as it was written, after exactly one
\* request to the store.
C9_BrokenChainKeepsToken ==
  (/\ rs.phase = "done" /\ rs.run = 1
   /\ rs.text = <<Ref(<<"a", "b", "f">>)>>
   /\ Usable(Get(baseRec, IdField("a")), Get(baseRec, LogicalNameField("a")))
   /\ store[KRel] # NotFound
   /\ ~Usable(Get(store[KRel], IdField("b")), Get(store[KRel], LogicalNameField("b"))))
  => (rs.out = rs.text /\ rs.nFetch = 1)

\* C10: no token is replaced by the string "undefined", with or without a
\* method suffix, and a template whose sole token names an attribute the
\* record lacks is returned unchanged.
C10_NoTokenBecomesUndefined ==
  rs.phase = "done" =>
    /\ \A i \in DOMAIN rs.out : rs.out[i] # Lit("undefined")
    /\ (Len(rs.refs) = 1 /\ Len(rs.refs[1].path) = 1
          /\ Get(baseRec, rs.refs[1].path[1]) = Undef) => rs.out = rs.text

\* ------------------------------------------------ claims on the instance
\* the configs of the list a pass over the record rec has to keep
VisibleAgainst(c, rec) ==
  \/ c.theia_visibilityexpression = NoExpr
  \/ EvaluateAsync(c.theia_visibilityexpression, NewEvaluator(rec), <<>>).value

\* C11: the list a resolveConfigs pass ends with is sorted ascending by
\* theia_buttonposition with ties in their original order, holds only configs
\* of the input list, and holds exactly those whose visibility expression is
\* empty or evaluates to true against the base record, each with isVisible.
C11_PassKeepsVisibleSorted ==
  \A n \in DOMAIN passes :
    passes[n].phase = "done" =>
      LET out == passes[n].newConfigs
      IN /\ \A i, j \in DOMAIN out :
              i < j => \/ out[i].theia_buttonposition < out[j].theia_buttonposition
                       \/ /\ out[i].theia_buttonposition = out[j].theia_buttonposition
                          /\ out[i].id < out[j].id
         /\ \A i \in DOMAIN out :
              /\ out[i].isVisible
              /\ \E k \in DOMAIN configs :
                   /\ configs[k].id = out[i].id
                   /\ configs[k].theia_buttonposition = out[i].theia_buttonposition
                   /\ configs[k].theia_visibilityexpression = out[i].theia_visibilityexpression
         /\ {out[i].id : i \in DOMAIN out}
              = {configs[k].id : k \in {x \in DOMAIN configs :
                                          VisibleAgainst(configs[x], passes[n].rec)}}

\* C12: within one resolveConfigs pass every lookup hop, taken by
\* asyncReplaceDynamicValues or by evaluateAsync, goes through the record
\* cache, so no related record is requested from the data store more than
\* once in that pass.
C12_RelatedFetchedOncePerPass ==
  \A n \in DOMAIN passes : \A k \in Keys :
    Cardinality({i \in DOMAIN passes[n].calls : passes[n].calls[i] = k}) <= 1

\* ---------------------------------- claims on two resolutions in a row
Requests(k) == Cardinality({i \in DOMAIN rs.asked : rs.asked[i] = k})

\* C13 (as stated): the second resolution of a template returns what the
\* first returned, and over both resolutions every lookup key is requested
\* from the data store at most once.
C13_TwiceSameOutputOneRequestPerKey ==
  (rs.run = 2 /\ rs.phase = "done") =>
     /\ rs.out = rs.first
     /\ \A k \in Keys : Requests(k) <= 1

\* C13 (amended): the second resolution returns what the first returned, and
\* every lookup key whose request the store answers with a record is requested
\* at most once over both resolutions; a key whose request is rejected is not
\* cached and is requested again.
C13_TwiceSameOutputOneRequestPerStoredKey ==
  /\ (rs.run = 2 /\ rs.phase = "done") => rs.out = rs.first
  /\ \A k \in Keys : store[k] # NotFound => Requests(k) <= 1
  /\ (rs.run = 2 /\ rs.phase = "await") => store[rs.key] = NotFound

\* C13 witness: the second resolution has substituted a related record's
\* value without any request of its own.
C13_Witness ==
  /\ rs.run = 2 /\ rs.phase = "done" /\ rs.nFetch = 0
  /\ rs.asked # <<>> /\ rs.out = rs.first /\ rs.out # rs.text

\* the base-record request of fetchRecord was rejected and fetchRecord is over
BaseFetchFailed ==
  fetchState = "done" /\ ValidRecordId(recordId) /\ store[KBase] = NotFound

\* C14 (as stated): after a failed base-record fetch the component is in the
\* Error state with the failure's message, no button is rendered and the held
\* resolvedConfigs list is empty.
C14_FailedFetchEmptiesConfigList ==
  BaseFetchFailed =>
    /\ error[1] /\ errorMessage = host.rejection.message
    /\ Render.buttons = <<>>
    /\ resolvedConfigs = <<>>

\* C14 (amended): after a failed base-record fetch the component is in the
\* Error state, with the failure's message when the failure is an Error and
\* with "Unknown error occurred" otherwise; the error message is rendered in
\* place of the buttons and no button can be clicked; the record is the empty
\* record, the key keeps no cache entry, and the list a finished pass has put
\* in resolvedConfigs is the list of the configs visible against the empty
\* record (held, not rendered).
C14_FailedFetchShowsErrorNoButtons ==
  BaseFetchFailed =>
    /\ error[1] /\ ~isLoading[1]
    /\ errorMessage = IF host.rejection.isError THEN host.rejection.message
                      ELSE "Unknown error occurred"
    /\ Render = [kind |-> "error", text |-> errorMessage, buttons |-> <<>>]
    /\ fx.clicks = 0
    /\ record[1] = "empty" /\ baseRec = EmptyRecord
    /\ cache[KBase].kind = "absent"
    /\ \A n \in DOMAIN passes :
         (passes[n].phase = "done" /\ passes[n].ev # 0 /\ resolvedConfigs = passes[n].newConfigs)
           => {resolvedConfigs[i].id : i \in DOMAIN resolvedConfigs}
                = {configs[k].id : k \in {x \in DOMAIN configs :
                                            VisibleAgainst(configs[x], EmptyRecord)}}

\* C14 witness: the fetch was rejected with a plain error object, the error
\* bar is rendered and resolvedConfigs holds configs all the same.
C14_Witness ==
  /\ BaseFetchFailed /\ ~host.rejection.isError
  /\ Render.kind = "error" /\ Render.text = "Unknown error occurred"
  /\ resolvedConfigs # <<>>

\* ------------------------------------------ claims on a rejected lookup
\* the chain of lookups path, followed from rec, reaches a record whose
\* request the store rejects
RECURSIVE HitsRejected(_, _, _)
HitsRejected(rec, path, i) ==
  IF i > Len(path) THEN FALSE
  ELSE LET id == Get(rec, IdField(path[i]))
           entity == Get(rec, LogicalNameField(path[i]))
       IN /\ Usable(id, entity)
          /\ \/ store[CacheKey(entity, id)] = NotFound
             \/ HitsRejected(store[CacheKey(entity, id)], path, i + 1)

FetchedChain(ref) == Len(ref.path) > 1 /\ ~IsIdField(FinalField(ref))

\* C15: a rejected request for a related record makes fetchRelatedRecord
\* return null, leaves no loading marker on the key and no error on the
\* component, and the resolution goes on and ends with the token's text
\* still in the output.
C15_RejectedLookupKeepsToken ==
  /\ [][ (rs.phase = "await" /\ rs'.phase # "await" /\ store[rs.key] = NotFound) =>
           /\ rs'.phase = "resolve" /\ rs'.related = NullRecord
           /\ rs'.vals[rs.refs[rs.idx].path] = Undef
           /\ cache'[rs.key].kind = "absent"
           /\ error' = error /\ ~error'[1]
       ]_vars
  /\ [](rs.phase = "done" =>
          \A i \in DOMAIN rs.refs :
             (FetchedChain(rs.refs[i]) /\ HitsRejected(baseRec, LookupPath(rs.refs[i]), 1)) =>
                /\ Substitute(rs.refs[i], rs.vals) = Str(rs.refs[i].full)
                /\ \E j \in DOMAIN rs.out : Occurs(rs.out, rs.refs[i].full, j))

\* C15 witness: the second hop of a chain was rejected after the first was
\* answered, and the resolution has ended with the text as it was.
C15_Witness ==
  /\ rs.phase = "done" /\ rs.run = 1 /\ rs.nFetch = 2
  /\ rs.related = NullRecord /\ rs.out = rs.text
  /\ store[KRel] # NotFound /\ store[KRel2] = NotFound
  /\ \A k \in Keys : cache[k].kind # "loading"

\* ------------------------------------------ claims on the evaluator
Faulted(e) == RunExpression(e.expr, e.data) \in {"throw", "syntax"}

\* C16 (as stated): an evaluateAsync call during which a related-record
\* request was rejected, or the rewritten expression raised an exception,
\* returns false.
C16_AnyFaultHidesButton ==
  \A n \in DOMAIN passes : \A i \in DOMAIN passes[n].evals :
    LET e == passes[n].evals[i]
    IN (e.asked /\ (e.failed \/ Faulted(e))) => e.value = FALSE

\* C16 (amended): evaluateAsync always returns a boolean; it returns false
\* when the rewritten expression cannot be compiled or raises an exception
\* while it runs; a rejected related-record request is not such an exception:
\* the reference's entry of the data map is null and the call returns what
\* the expression yields on null.
C16_ExpressionFaultHidesButton ==
  \A n \in DOMAIN passes : \A i \in DOMAIN passes[n].evals :
    LET e == passes[n].evals[i]
    IN e.asked =>
         /\ e.value \in BOOLEAN
         /\ Faulted(e) => e.value = FALSE
         /\ e.failed => /\ e.data = Null
                        /\ e.value = (RunExpression(e.expr, Null) = "true")

\* C16 witness: an expression that raised an exception on a record's value
\* has been evaluated to false.
C16_Witness ==
  \E n \in DOMAIN passes : \E i \in DOMAIN passes[n].evals :
    LET e == passes[n].evals[i]
    IN e.asked /\ RunExpression(e.expr, e.data) = "throw" /\ e.data # Null /\ ~e.value

\* ------------------------------------------------- claims on the clicks
\* the last click ran an action script that threw
ScriptThrew ==
  fx.click.path = "script" /\ Throws(fx.click.ran[1])

\* C17: when the action script of a click throws, the error is shown exactly
\* once, by Xrm.Navigation.openAlertDialog or, where the page has none, by
\* alert; safeExecute's promise rejects; and the component still renders its
\* buttons with no error set.
C17_ThrowingScriptSurfacedOnce ==
  ScriptThrew =>
    /\ fx.click.rejected
    /\ IF host.xrm = "dialog" THEN fx.click.dialogs = 1 /\ fx.click.alerts = 0
       ELSE fx.click.dialogs = 0 /\ fx.click.alerts = 1
    /\ Render.kind = "buttons" /\ ~error[1] /\ ~isLoading[1]

\* C18: a click never both runs the action script and navigates; a button
\* with a non-empty action script, clicked while an evaluator exists, has its
\* script run and nothing opened, also when the script fails; any other
\* click opens the url by window.open exactly when the url is non-empty.
C18_ClickRunsScriptOrOpensUrl ==
  fx.click.path # "none" =>
    LET b == fx.click.button
    IN /\ ~(fx.click.ran # <<>> /\ fx.click.opened # <<>>)
       /\ IF b.theia_actionscript # <<>> /\ fx.click.evaluator
          THEN /\ fx.click.path = "script" /\ fx.click.opened = <<>>
               /\ Len(fx.click.ran) = 1
          ELSE /\ fx.click.ran = <<>>
               /\ IF b.theia_url # <<>>
                  THEN fx.click.path = "url" /\ fx.click.opened = <<b.theia_url>>
                  ELSE fx.click.path = "nothing" /\ fx.click.opened = <<>>

\* C19: with recordId empty or the all-zero guid, fetchRecord sets the empty
\* record and an evaluator bound to it, sends no request to the data store,
\* writes no cache entry, and leaves the component ready: isLoading false
\* and no error.
C19_NoRecordIdGivesEmptyRecord ==
  (recordId \in {"", ZeroGuid} /\ fetchState # "due") =>
    /\ fetchState = "done"
    /\ record[1] = "empty" /\ baseRec = EmptyRecord
    /\ expressionEvaluator.cur # 0
    /\ expressionEvaluator.objs[expressionEvaluator.cur].rec = EmptyRecord
    /\ fx.calls = <<>>
    /\ \A k \in Keys : cache[k] = Absent
    /\ fetchedRecordKeys[1] = {}
    /\ ~isLoading[1] /\ ~error[1] /\ errorMessage = ""
    /\ Render.kind = "buttons"

\* C19 witness: on a form bound to the all-zero guid the pass over the empty
\* record has ended and buttons are rendered.
C19_Witness ==
  /\ recordId = ZeroGuid /\ fetchState = "done"
  /\ \A n \in DOMAIN passes : passes[n].phase = "done"
  /\ Render.kind = "buttons" /\ Render.buttons # <<>>
  /\ fx.calls = <<>>

\* ------------------------------------------ claims on the substitution
\* the text with every token occurrence replaced, where it stands, by the
\* stringified value of its own reference
RECURSIVE ReplacedInPlace(_, _, _)
ReplacedInPlace(text, i, vals) ==
  IF i > Len(text) THEN <<>>
  ELSE IF text[i].k # "ref" THEN <<text[i]>> \o ReplacedInPlace(text, i + 1, vals)
  ELSE IF i < Len(text) /\ text[i + 1].k = "call"
       THEN StringOf(Substitute([full |-> <<text[i], text[i + 1]>>, path |-> text[i].p,
                                 meth |-> text[i + 1]], vals))
              \o ReplacedInPlace(text, i + 2, vals)
       ELSE StringOf(Substitute([full |-> <<text[i]>>, path |-> text[i].p, meth |-> NoCall],
                                vals))
              \o ReplacedInPlace(text, i + 1, vals)

\* the text t holds the text pat
Holds(t, pat) == \E i \in DOMAIN t : Occurs(t, pat, i)

\* no value that replaces a token holds the matched text of a later token
NoValueHoldsLaterToken(refs, vals) ==
  \A i, j \in DOMAIN refs :
    i < j => \/ Substitute(refs[i], vals) = Str(refs[i].full)
             \/ ~Holds(StringOf(Substitute(refs[i], vals)), refs[j].full)

\* C20 (as stated): the returned text is the template with each of its token
\* occurrences replaced by the stringified value resolved for that token's
\* own fieldPath, whatever the values hold.
C20_EveryTokenGetsItsOwnValue ==
  rs.phase = "done" => rs.out = ReplacedInPlace(rs.text, 1, rs.vals)

\* C20 (restricted): the same holds of the resolutions in which no value
\* substituted for a token holds the matched text of a later token.
C20_TokensGetOwnValueUnlessValueHoldsToken ==
  (rs.phase = "done" /\ NoValueHoldsLaterToken(rs.refs, rs.vals))
    => rs.out = ReplacedInPlace(rs.text, 1, rs.vals)

\* C20 witness: a template with the same token twice has both occurrences
\* replaced by the field's value.
C20_Witness ==
  /\ rs.phase = "done" /\ Len(rs.refs) = 2 /\ rs.refs[1] = rs.refs[2]
  /\ rs.vals[rs.refs[1].path] = Word("abc")
  /\ rs.out = <<Lit("abc"), Lit("|"), Lit("abc")>>

\* ------------------------------------------- claims on the evaluator
\* C21 (as stated): for any two records the expression is rewritten to the
\* same code, and record values reach the evaluation only through the data
\* map: two records with the same data map give the same result.
C21_CodeFromTextValuesOnlyThroughData ==
  (trial.ran[1] /\ trial.ran[2]) =>
    /\ trial.code[1] = trial.code[2]
    /\ trial.data[1] = trial.data[2] => trial.value[1] = trial.value[2]

\* C21 (amended): for any two records the expression is rewritten to the same
\* code, in which every reference is a lookup in the data map; an expression
\* that does not name the record argument gives the same result on two
\* records with the same data map.
C21_CodeFromTextValuesThroughDataOrRecord ==
  (trial.ran[1] /\ trial.ran[2]) =>
    /\ trial.code[1] = trial.code[2]
    /\ \A i \in DOMAIN trial.code[1] : trial.code[1][i].k # "ref"
    /\ \A i \in DOMAIN ExprText(trial.e) :
         ExprText(trial.e)[i].k = "ref" =>
           \E j \in DOMAIN trial.code[1] :
             /\ trial.code[1][j].k \in {"data", "guarded"}
             /\ trial.code[1][j].p = ExprText(trial.e)[i].p
    /\ (trial.e.form # "rec" /\ trial.data[1] = trial.data[2])
         => trial.value[1] = trial.value[2]

\* C21 witness: two records whose field values differ were evaluated, with
\* different data and different results, by the same code.
C21_Witness ==
  /\ trial.ran[1] /\ trial.ran[2]
  /\ trial.e = Expr("upper", <<"f">>, "abc")
  /\ trial.data[1] = Word("abc") /\ trial.data[2] = Word("x1")
  /\ trial.code[1] = <<Guarded(<<"f">>, Call("toUpperCase", <<>>)), Lit(" == '"),
                       Lit("abc"), Lit("'")>>
  /\ trial.code[2] = trial.code[1]

\* ------------------------------------------- claims on overlapping passes
\* the passes suspended on a webAPI.retrieveRecord request of their own
Suspended == {n \in DOMAIN passes : passes[n].phase = "await"}

\* C22 (as stated): at any time at most one network request issued by the
\* config resolution of the component is outstanding, also when the record,
\* the config list or the evaluator changes while a pass is suspended.
C22_OneRequestOutstanding ==
  Cardinality(Suspended) <= 1

\* ------------------------------------------- claims on the polling
\* one step of the call in slot i: a poll goes on to the next poll while
\* fewer than MAX_RETRIES were made, returns the stored record, or issues
\* its own request over the marker; a request is followed by the return
PollStep(i) ==
  /\ (calls[i].st = "wait" /\ calls'[i] # calls[i]) =>
       /\ calls[i].retry < MAX_RETRIES
       /\ \/ calls'[i].st = "free" /\ cache[calls[i].key].kind = "record"
          \/ /\ calls'[i].st = "wait" /\ calls'[i].retry = calls[i].retry + 1
             /\ calls'[i].retry < MAX_RETRIES
             /\ cache[calls[i].key].kind = "loading" /\ cache' = cache
             /\ Outstanding(calls[i].key)' = Outstanding(calls[i].key)
          \/ /\ calls'[i].st = "fetch" /\ calls'[i].retry = calls[i].retry + 1
             /\ cache'[calls[i].key] = Loading
             /\ cache[calls[i].key].kind = "loading" => calls'[i].retry = MAX_RETRIES
  /\ (calls[i].st = "fetch" /\ calls'[i] # calls[i]) => calls'[i].st = "free"

\* C23: a caller that finds the loading marker polls at most 5 times without
\* sending a request; at retryCount 5 it replaces the marker and sends its
\* own request; so a waiting call always gets past its waits, also when the
\* request of the marker's owner is never answered.
C23_PollsFiveTimesThenFetches ==
  /\ [](\A i \in Slots : /\ calls[i].st = "wait" => calls[i].retry < MAX_RETRIES
                        /\ calls[i].retry <= MAX_RETRIES)
  /\ [][\A i \in Slots : PollStep(i)]_vars
  /\ \A i \in Slots : (calls[i].st = "wait") ~> (calls[i].st # "wait")

\* C23 witness: after its fifth poll a caller has sent its own request while
\* the request of the marker's owner is still outstanding.
C23_Witness ==
  \E i, j \in Slots :
    /\ i # j /\ calls[i].st = "fetch" /\ calls[i].retry = MAX_RETRIES
    /\ calls[j].st = "fetch" /\ calls[j].key = calls[i].key /\ calls[j].retry = 0
    /\ cache[calls[i].key] = Loading

\* what the effect of 861-897 depends on
PassInputs == <<record[1], baseRec, configs, expressionEvaluator.cur>>

\* C24: every fetchRecord ends with isLoading false and a record set (Ready
\* or Error) when the data store answers; no pass exists before a record is
\* set; every change of the record, the config list or the evaluator of a
\* render that holds a record starts a pass with the new values.
C24_LoadingEndsAndPassesFollowChanges ==
  /\ (fetchState # "done") ~> (fetchState = "done" /\ ~isLoading[1] /\ record[1] # "null")
  /\ isLoading[1] ~> ~isLoading[1]
  /\ [](passes # <<>> => record[1] # "null")
  /\ [][(record'[1] # "null" /\ PassInputs' # PassInputs) =>
          /\ Len(passes') > Len(passes)
          /\ passes'[Len(passes')].rec = baseRec'
          /\ passes'[Len(passes')].ev = expressionEvaluator'.cur
          /\ passes'[Len(passes')].sorted = SortedConfigs(configs')]_vars

\* C24 witness: the record was loaded, refetched after a save, and the
\* config list changed; a pass was started each time.
C24_Witness ==
  /\ saves = 1 /\ fetchState = "done" /\ ~isLoading[1] /\ record[1] = "loaded"
  /\ baseRec = QSaved /\ configs = QConfigsAfter /\ Len(passes) = 5
  /\ passes[5].rec = QSaved /\ passes[5].ev = 2 /\ passes[5].sorted = QConfigsAfter

\* C25: once every pass has finished and no load of the form's record is
\* under way, resolvedConfigs holds the list published by the pass that was
\* started last: the result of an older pass never stands in its place.
AllPassesDone ==
  /\ passes # <<>> /\ fetchState = "done"
  /\ \A n \in DOMAIN passes : passes[n].phase = "done"
C25_NewestPassWins ==
  AllPassesDone => resolvedConfigs = passes[Len(passes)].newConfigs

\* C26: a pass that resolves the texts against the record loaded after a
\* save decides the visibility on that same record: every button in the
\* list of such a pass is one whose visibility expression holds when it is
\* evaluated by an evaluator built for the record of the pass, never one
\* that is visible only on the record of before the save.
AfterSavePass(n) == passes[n].phase = "done" /\ passes[n].rec = QSaved
VisibleOnOwnRecord(n, c) ==
  IsVisible(c.theia_visibilityexpression, 1, <<NewEvaluator(passes[n].rec)>>, <<>>).value
C26_EvaluatorOfTheSameRecord ==
  \A n \in DOMAIN passes :
    AfterSavePass(n) =>
      \A i \in DOMAIN passes[n].newConfigs :
        VisibleOnOwnRecord(n, passes[n].sorted[CHOOSE j \in DOMAIN passes[n].sorted :
                                 passes[n].sorted[j].id = passes[n].newConfigs[i].id])

\* C27: a record stored in window.recordCache leaves it only through an
\* invalidation (the post-save handler or the unmount cleanup): no request
\* that fails and no caller that polls deletes a stored record or puts a
\* loading marker in its place.
C27_StoredRecordGoesOnlyByInvalidation ==
  [][\A k \in DOMAIN cache :
       (cache[k].kind = "record" /\ cache'[k].kind # "record")
         => last'.op \in {"postsave", "unmount"}]_vars

\* C28: for one field path on one record and one content of the data store,
\* the value asyncReplaceDynamicValues resolves for {path} is there (neither
\* undefined nor null, nor the token's own text kept in its place) exactly
\* when the entry of the evaluator's data map for path is not null, and then
\* the entry is that value, coerced.
ResolverHasValue ==
  /\ trial.tv.t \notin {"undef", "null"}
  /\ trial.tv # Str(<<Ref(trial.e.path)>>)
C28_ResolverAndEvaluatorAgree ==
  (trial.resolved /\ trial.ran[1]) =>
    /\ ResolverHasValue <=> (trial.data[1] # Null)
    /\ trial.data[1] # Null => trial.data[1] = ConvertValueToProperType(trial.tv)

\* C29: resolving a resolved text once more changes nothing: when a
\* resolution of a text against the record is done, what handleClick's
\* asyncReplaceDynamicValues makes of its result, against the same record,
\* is that result again.
C29_SecondResolutionIsIdentity ==
  (rs.phase = "done" /\ rs.run = 1) =>
    AsyncReplaceDynamicValues(rs.out, TRUE, baseRec,
                              World(cache, fetchedRecordKeys[1], <<>>)).out = rs.out

\* C30: once error is set it stays set, and the error message is rendered in
\* place of the buttons: no reload after a save, no change of the configs
\* and no pass that publishes its list clears it or brings the buttons back.
C30_ErrorIsAbsorbing ==
  /\ [](error[1] => Render = [kind |-> "error", text |-> errorMessage, buttons |-> <<>>])
  /\ [][error[1] => error'[1]]_vars

\* C30 witness: the first load failed; after a save the reload brought the
\* record, the configs changed and a pass published a button, and the error
\* is still what is rendered.
C30_Witness ==
  /\ error[1] /\ Render.kind = "error"
  /\ saves = 1 /\ fetchState = "done" /\ record[1] = "loaded" /\ baseRec = QSaved
  /\ configs = QConfigsAfter
  /\ resolvedConfigs # <<>>
  /\ \A n \in DOMAIN passes : passes[n].phase = "done"

====
